---------------------------- MODULE Spec2Model ----------------------------
(***************************************************************************)
(* Model of ss_ref_bot: the Google-Sheets backed referral ledger           *)
(* (sheets/sheets.go) and the Telegram bot that drives it (bot package).   *)
(*                                                                         *)
(* The store is four sheets, each a sequence of rows; sheet row number r   *)
(* (the header is row 1) is index r-1 of the sequence.  Every call of the  *)
(* Sheets API (Values.Get, Values.Update) is one atomic step; a step that  *)
(* takes the cache mutex is atomic as well.  Amounts are whole numbers and *)
(* profits are multiples of ten, so that float64 arithmetic (profit * 0.1, *)
(* pending + bonus) is exact on every amount that occurs.                  *)
(***************************************************************************)
EXTENDS Integers, Sequences, FiniteSets, TLC

(***************************************************************************)
(* Bounds of the exploration.                                              *)
(***************************************************************************)
MaxUser == 2
MaxDeal == 2
MaxRows == 2
MaxPass == 2
MaxDraw == 2
MaxRetry == 1
MaxReq == 2
MaxHandler == 2

(***************************************************************************)
(* Program constants.                                                      *)
(***************************************************************************)
codeLength == 6
maxAttempts == 100

charset ==
    << "A","B","C","D","E","F","G","H","I","J","K","L","M",
       "N","O","P","Q","R","S","T","U","V","W","X","Y","Z",
       "0","1","2","3","4","5","6","7","8","9" >>

Users == 1 .. MaxUser
Deals == 1 .. MaxDeal

(***************************************************************************)
(* Strings that the code inspects character by character (ids, codes) are  *)
(* sequences of one-character strings.                                     *)
(***************************************************************************)
lowerLetters ==
    << "a","b","c","d","e","f","g","h","i","j","k","l","m",
       "n","o","p","q","r","s","t","u","v","w","x","y","z" >>

digitChars == << "0","1","2","3","4","5","6","7","8","9" >>

RECURSIVE IndexOf(_, _, _)
IndexOf(seq, c, k) ==
    IF k > Len(seq) THEN 0
    ELSE IF seq[k] = c THEN k
    ELSE IndexOf(seq, c, k + 1)

UpperChar(c) ==
    LET k == IndexOf(lowerLetters, c, 1)
    IN  IF k = 0 THEN c ELSE charset[k]

ToUpper(s) == [k \in 1 .. Len(s) |-> UpperChar(s[k])]

RECURSIVE TrimLeft(_)
TrimLeft(s) ==
    IF s # << >> /\ Head(s) = " " THEN TrimLeft(Tail(s)) ELSE s

RECURSIVE TrimRight(_)
TrimRight(s) ==
    IF s # << >> /\ s[Len(s)] = " "
    THEN TrimRight(SubSeq(s, 1, Len(s) - 1))
    ELSE s

TrimSpace(s) == TrimRight(TrimLeft(s))

getStringValue(val) == TrimSpace(val)

NormalizeCode(code) == ToUpper(TrimSpace(code))

RECURSIVE FormatNat(_)
FormatNat(n) ==
    IF n < 10 THEN << digitChars[n + 1] >>
    ELSE Append(FormatNat(n \div 10), digitChars[(n % 10) + 1])

FormatInt(n) == IF n < 0 THEN << "-" >> \o FormatNat(0 - n) ELSE FormatNat(n)

RECURSIVE ParseDigits(_, _)
ParseDigits(s, acc) ==
    IF s = << >> THEN acc
    ELSE LET d == IndexOf(digitChars, Head(s), 1)
         IN  IF d = 0 THEN -1 ELSE ParseDigits(Tail(s), acc * 10 + (d - 1))

ParseInt(s) ==
    LET neg  == s # << >> /\ Head(s) \in {"-", "+"}
        body == IF neg THEN Tail(s) ELSE s
        v    == IF body = << >> THEN -1 ELSE ParseDigits(body, 0)
    IN  IF v < 0 THEN [ok |-> FALSE, val |-> 0]
        ELSE [ok |-> TRUE, val |-> IF s # << >> /\ Head(s) = "-" THEN 0 - v ELSE v]

(***************************************************************************)
(* Records.                                                                *)
(***************************************************************************)
NoCode == << >>

NilReferrer ==
    [ID |-> 0, Username |-> << >>, Code |-> NoCode, Wallet |-> "",
     RefCount |-> 0, PendingPayout |-> 0, PaidOut |-> 0]

NilInvited == [UserID |-> 0, RefCode |-> NoCode]

NilWithdrawal == [DealID |-> << >>, UserID |-> 0, Profit |-> 0]

IsNil(r) == r = NilReferrer

ReferrerRow(ref) ==
    [A |-> FormatInt(ref.ID), B |-> ref.Username, C |-> ref.Code,
     D |-> IF ref.Wallet # "" THEN ref.Wallet ELSE "",
     E |-> ref.RefCount, F |-> ref.PendingPayout, G |-> ref.PaidOut]

EmptyReferrerRow ==
    [A |-> << >>, B |-> << >>, C |-> NoCode, D |-> "", E |-> 0, F |-> 0, G |-> 0]

InvitedRow(userID, refCode) == [A |-> FormatInt(userID), B |-> refCode]

EmptyInvitedRow == [A |-> << >>, B |-> NoCode]

ReferralRow(r) ==
    [A |-> FormatInt(r.RefID), B |-> r.RefCode, C |-> r.Profit,
     D |-> r.DealID, E |-> r.Bonus]

EmptyReferralRow ==
    [A |-> << >>, B |-> NoCode, C |-> 0, D |-> << >>, E |-> 0]


(***************************************************************************)
(* Cells of the upstream range (read with UNFORMATTED_VALUE): a text cell  *)
(* or a number cell.                                                       *)
(***************************************************************************)
StrCell(s) == [t |-> "string", s |-> s, n |-> 0]

NumCell(n) == [t |-> "float64", s |-> << >>, n |-> n]

CellString(cell) ==
    IF cell.t = "string" THEN getStringValue(cell.s)
    ELSE getStringValue(FormatInt(cell.n))

RECURSIVE RemoveSpaces(_)
RemoveSpaces(s) ==
    IF s = << >> THEN << >>
    ELSE IF Head(s) = " " THEN RemoveSpaces(Tail(s))
    ELSE << Head(s) >> \o RemoveSpaces(Tail(s))

getFloatValue(cell) ==
    IF cell.t = "float64" THEN cell.n
    ELSE LET p == ParseInt(TrimSpace(cell.s))
         IN  IF cell.s = << >> \/ ~p.ok THEN 0 ELSE p.val

(***************************************************************************)
(* State.                                                                  *)
(***************************************************************************)
VARIABLES
    referrersSheet,     \* sheet "Рефоводы", rows 2.. (columns A..G)
    invitedSheet,       \* sheet "Приглашенные", rows 2.. (columns A..B)
    referralsSheet,     \* sheet "Рефералы", rows 2.. (columns A..E; F is the date)
    withdrawalsSheet,   \* sheet "Выводы", rows 2.. (cells A..D)
    referrersByID,      \* SheetsClient.referrersByID
    referrersByCode,    \* SheetsClient.referrersByCode
    invitedByUserID,    \* SheetsClient.invitedByUserID
    existingDealIDs,    \* SheetsClient.existingDealIDs
    cacheMutex,         \* 0, or the task holding the write lock of LoadCache
    pc,                 \* position of every task
    loc,                \* locals of every task
    faulty,             \* whether calls of the Sheets API may fail in this run
    passes,             \* reconciliation passes completed by the sync worker
    requests,           \* updates delivered to request handlers
    waitingForWallet    \* Bot.waitingForWallet: the user ids with the flag set

store == << referrersSheet, invitedSheet, referralsSheet, withdrawalsSheet >>

cache == << referrersByID, referrersByCode, invitedByUserID, existingDealIDs >>

vars ==
    << referrersSheet, invitedSheet, referralsSheet, withdrawalsSheet,
       referrersByID, referrersByCode, invitedByUserID, existingDealIDs,
       cacheMutex, pc, loc, faulty, waitingForWallet, passes, requests >>

(***************************************************************************)
(* Maps: functions with a finite domain.                                   *)
(***************************************************************************)
EmptyMap == << >>

MapGet(m, k, nil) == IF k \in DOMAIN m THEN m[k] ELSE nil

MapPut(m, k, v) == [x \in (DOMAIN m) \cup {k} |-> IF x = k THEN v ELSE m[x]]

(***************************************************************************)
(* parseReferrerRow and the three loaders of LoadCache, as functions of    *)
(* the rows read.                                                          *)
(***************************************************************************)
parseReferrerRow(row) ==
    LET id == ParseInt(row.A)
    IN  IF ~id.ok THEN NilReferrer
        ELSE [ID |-> id.val, Username |-> row.B, Code |-> getStringValue(row.C),
              Wallet |-> row.D, RefCount |-> row.E,
              PendingPayout |-> row.F, PaidOut |-> row.G]

RECURSIVE ReferrersByIDOf(_, _)
ReferrersByIDOf(rows, m) ==
    IF rows = << >> THEN m
    ELSE LET ref == parseReferrerRow(Head(rows))
         IN  ReferrersByIDOf(Tail(rows),
                 IF IsNil(ref) THEN m ELSE MapPut(m, ref.ID, ref))

RECURSIVE ReferrersByCodeOf(_, _)
ReferrersByCodeOf(rows, m) ==
    IF rows = << >> THEN m
    ELSE LET ref == parseReferrerRow(Head(rows))
         IN  ReferrersByCodeOf(Tail(rows),
                 IF IsNil(ref) \/ ref.Code = NoCode THEN m
                 ELSE MapPut(m, NormalizeCode(ref.Code), ref))

RECURSIVE InvitedByUserIDOf(_, _)
InvitedByUserIDOf(rows, m) ==
    IF rows = << >> THEN m
    ELSE LET id == ParseInt(Head(rows).A)
         IN  InvitedByUserIDOf(Tail(rows),
                 IF ~id.ok THEN m
                 ELSE MapPut(m, id.val,
                          [UserID |-> id.val,
                           RefCode |-> getStringValue(Head(rows).B)]))

DealIDsOf(rows) ==
    { getStringValue(rows[k].D) : k \in 1 .. Len(rows) } \ { << >> }

(***************************************************************************)
(* Lookups (each returns a copy of the cached record).                     *)
(***************************************************************************)
GetReferrerByID(userID) == MapGet(referrersByID, userID, NilReferrer)

\* A variant that looks the code up as it was given; C18 tells it from
\* GetReferrerByCode.
GetReferrerByCodeAsGiven(code) == MapGet(referrersByCode, code, NilReferrer)

GetReferrerByCode(code) ==
    MapGet(referrersByCode, NormalizeCode(code), NilReferrer)

GetInvitedByUserID(userID) == MapGet(invitedByUserID, userID, NilInvited)

(***************************************************************************)
(* findFirstEmptyRow and the single-row Values.Update.                     *)
(***************************************************************************)
RECURSIVE FirstEmptyIndex(_, _)
FirstEmptyIndex(rows, i) ==
    IF i >= Len(rows) THEN Len(rows)
    ELSE IF getStringValue(rows[i + 1].A) = << >> THEN i
    ELSE FirstEmptyIndex(rows, i + 1)

findFirstEmptyRow(rows) ==
    IF Len(rows) = 0 THEN 2 ELSE FirstEmptyIndex(rows, 0) + 2

UpdateRow(rows, rowIndex, row, empty) ==
    LET k == rowIndex - 1
    IN  IF k <= Len(rows) THEN [rows EXCEPT ![k] = row]
        ELSE rows \o [j \in 1 .. (k - Len(rows)) |->
                          IF j = k - Len(rows) THEN row ELSE empty]

(***************************************************************************)
(* UpdateReferrer's search of the row that holds ref.ID: -1 when absent.   *)
(***************************************************************************)
RECURSIVE FindReferrerRow(_, _, _)
FindReferrerRow(rows, id, i) ==
    IF i >= Len(rows) THEN -1
    ELSE LET p == ParseInt(rows[i + 1].A)
         IN  IF p.ok /\ p.val = id THEN i + 2
             ELSE FindReferrerRow(rows, id, i + 1)

(***************************************************************************)
(* codeExists: the code column is compared after trimming, case and all.   *)
(***************************************************************************)
\* A variant that asks the cache instead of the rows read; C9 tells it from
\* codeExists.
codeExistsInCache(rows, code) ==
    NormalizeCode(code) \in DOMAIN referrersByCode

codeExists(rows, code) ==
    \E k \in 1 .. Len(rows) : getStringValue(rows[k].C) = code

(***************************************************************************)
(* GetNewWithdrawals: the rows of the upstream range that survive the      *)
(* filters, in row order.  existing is the copy of existingDealIDs taken   *)
(* before the range is read.                                               *)
(***************************************************************************)
ParseUserID(cell) ==
    IF cell.t = "float64" THEN [ok |-> TRUE, val |-> cell.n]
    ELSE LET cleaned == TrimSpace(RemoveSpaces(cell.s))
         IN  IF cleaned = << >> THEN [ok |-> FALSE, val |-> 0]
             ELSE ParseInt(cleaned)

\* A variant without the filter on the profit; C13 tells it from
\* ParseWithdrawalRow.
ParseWithdrawalRowAnyProfit(existing, row) ==
    LET dealID == CellString(row[1])
        userID == ParseUserID(row[2])
        profit == IF Len(row) >= 4 THEN getFloatValue(row[4])
                  ELSE getFloatValue(row[3])
    IN  IF Len(row) < 2 THEN NilWithdrawal
        ELSE IF dealID = << >> THEN NilWithdrawal
        ELSE IF dealID \in existing THEN NilWithdrawal
        ELSE IF ~userID.ok THEN NilWithdrawal
        ELSE IF Len(row) < 3 THEN NilWithdrawal
        ELSE [DealID |-> dealID, UserID |-> userID.val, Profit |-> profit]

\* A variant that reads the profit from the fourth cell only; C19 tells it
\* from ParseWithdrawalRow.
ParseWithdrawalRowFourthOnly(existing, row) ==
    LET dealID == CellString(row[1])
        userID == ParseUserID(row[2])
        profit == getFloatValue(row[4])
    IN  IF Len(row) < 2 THEN NilWithdrawal
        ELSE IF dealID = << >> THEN NilWithdrawal
        ELSE IF dealID \in existing THEN NilWithdrawal
        ELSE IF ~userID.ok THEN NilWithdrawal
        ELSE IF Len(row) < 4 THEN NilWithdrawal
        ELSE IF profit <= 0 THEN NilWithdrawal
        ELSE [DealID |-> dealID, UserID |-> userID.val, Profit |-> profit]

ParseWithdrawalRow(existing, row) ==
    LET dealID == CellString(row[1])
        userID == ParseUserID(row[2])
        profit == IF Len(row) >= 4 THEN getFloatValue(row[4])
                  ELSE getFloatValue(row[3])
    IN  IF Len(row) < 2 THEN NilWithdrawal
        ELSE IF dealID = << >> THEN NilWithdrawal
        ELSE IF dealID \in existing THEN NilWithdrawal
        ELSE IF ~userID.ok THEN NilWithdrawal
        ELSE IF Len(row) < 3 THEN NilWithdrawal
        ELSE IF profit <= 0 THEN NilWithdrawal
        ELSE [DealID |-> dealID, UserID |-> userID.val, Profit |-> profit]

RECURSIVE GetNewWithdrawals(_, _)
GetNewWithdrawals(existing, rows) ==
    IF rows = << >> THEN << >>
    ELSE LET w == ParseWithdrawalRow(existing, Head(rows))
         IN  (IF w = NilWithdrawal THEN << >> ELSE << w >>)
                 \o GetNewWithdrawals(existing, Tail(rows))

\* A variant that pays the whole profit; C14 tells it from Bonus.
BonusWholeProfit(profit) == profit

Bonus(profit) == (profit * 1) \div 10

(***************************************************************************)
(* Tasks: one goroutine per update (Start), the sync worker, and the task  *)
(* that stands for the worker's periodic LoadCache when the bot's handlers *)
(* are studied on their own.                                               *)
(***************************************************************************)
Handlers == 1 .. MaxHandler

SyncWorker == MaxHandler + 1

ReloadTask == MaxHandler + 2

PayoutWorker == MaxHandler + 3

\* The goroutines that the recover of a periodic task starts: no goroutine
\* (position "none") until then.
SyncRestarted == MaxHandler + 4

PayoutRestarted == MaxHandler + 5

SyncSlots == { SyncWorker, SyncRestarted }

PayoutSlots == { PayoutWorker, PayoutRestarted }

Tasks == 1 .. (MaxHandler + 5)

NilReferral ==
    [RefID |-> 0, RefCode |-> NoCode, Profit |-> 0, DealID |-> << >>, Bonus |-> 0]

\* rows and invitedRows are resp.Values of loadReferrersCache and of
\* loadInvitedCache, kept until LoadCache returns; saved is history only: the
\* four cache structures as they were when LoadCache took the mutex.  text is
\* msg.Text of the update that handleWalletInput works on.  held is
\* the *Referrer that a caller of the package keeps between its calls, and
\* shared tells that held points to the very record that the cache maps hold.
LocInit ==
    [user |-> 0, uname |-> << >>, arg |-> NoCode, ref |-> NilReferrer,
     invited |-> NilInvited, referral |-> NilReferral, rowIndex |-> 0,
     i |-> 0, queue |-> << >>, rows |-> << >>, invitedRows |-> << >>,
     saved |-> << >>, held |-> NilReferrer, shared |-> FALSE,
     text |-> "", ret |-> "idle", err |-> FALSE]

FailChoices == IF faulty THEN {FALSE, TRUE} ELSE {FALSE}

Goto(t, p) == pc' = [pc EXCEPT ![t] = p]

\* The call that was running returns err to the position it was called from;
\* a task that ends drops its locals.
Return(t, err) ==
    /\ pc' = [pc EXCEPT ![t] = loc[t].ret]
    /\ loc' = [loc EXCEPT ![t] =
                  IF loc[t].ret \in {"idle", "w_idle", "r_idle", "p_idle"}
                  THEN [LocInit EXCEPT !.err = err, !.ret = loc[t].ret]
                  ELSE [@ EXCEPT !.err = err, !.rows = << >>,
                                 !.invitedRows = << >>, !.saved = << >>]]

\* UpdateReferrer returns nil after it stored the pointer ref in the maps: a
\* caller that keeps ref now holds the record of the cache, and a record that
\* another task held under that id is no longer the one in the maps.
ReturnStored(t) ==
    /\ pc' = [pc EXCEPT ![t] = loc[t].ret]
    /\ loc' = [u \in Tasks |->
                  IF u = t
                  THEN IF loc[t].ret \in {"idle", "w_idle", "r_idle", "p_idle"}
                       THEN [LocInit EXCEPT !.ret = loc[t].ret]
                       ELSE [loc[t] EXCEPT !.err = FALSE, !.rows = << >>,
                                           !.invitedRows = << >>, !.saved = << >>,
                                           !.shared = (loc[t].ret = "c_held")]
                  ELSE IF loc[u].held.ID = loc[t].ref.ID
                       THEN [loc[u] EXCEPT !.shared = FALSE]
                       ELSE loc[u]]

counters == << passes, requests >>

(***************************************************************************)
(* LoadCache: the mutex is taken for the whole call; each loader reads its *)
(* range and, when the read succeeded, replaces its map.                   *)
(***************************************************************************)
loadReferrersCache(t) ==
    /\ pc[t] = "lc_referrers"
    /\ cacheMutex = 0
    /\ \E fail \in FailChoices :
          IF fail
          THEN /\ Return(t, TRUE)
               /\ UNCHANGED << cache, cacheMutex >>
          ELSE /\ referrersByID' = ReferrersByIDOf(referrersSheet, EmptyMap)
               /\ referrersByCode' = ReferrersByCodeOf(referrersSheet, EmptyMap)
               /\ cacheMutex' = t
               /\ Goto(t, "lc_invited")
               /\ loc' = [u \in Tasks |->
                             IF u = t
                             THEN [loc[t] EXCEPT !.rows = referrersSheet,
                                                 !.saved = cache]
                             ELSE [loc[u] EXCEPT !.shared = FALSE]]
               /\ UNCHANGED << invitedByUserID, existingDealIDs >>
    /\ UNCHANGED << store, faulty, waitingForWallet, counters >>

loadInvitedCache(t) ==
    /\ pc[t] = "lc_invited"
    /\ cacheMutex = t
    /\ \E fail \in FailChoices :
          IF fail
          THEN /\ Return(t, TRUE)
               /\ cacheMutex' = 0
               /\ UNCHANGED cache
          ELSE /\ invitedByUserID' = InvitedByUserIDOf(invitedSheet, EmptyMap)
               /\ Goto(t, "lc_dealids")
               /\ loc' = [loc EXCEPT ![t].invitedRows = invitedSheet]
               /\ UNCHANGED << referrersByID, referrersByCode, existingDealIDs,
                               cacheMutex >>
    /\ UNCHANGED << store, faulty, waitingForWallet, counters >>

\* A variant that empties the set before the read, so that a failed read
\* leaves it empty; C25 tells it from loadDealIDsCache.
loadDealIDsCacheEmptiesFirst(t) ==
    /\ pc[t] = "lc_dealids"
    /\ cacheMutex = t
    /\ \E fail \in FailChoices :
          IF fail
          THEN /\ Return(t, TRUE)
               /\ existingDealIDs' = {}
               /\ UNCHANGED << referrersByID, referrersByCode, invitedByUserID >>
          ELSE /\ existingDealIDs' = DealIDsOf(referralsSheet)
               /\ Return(t, FALSE)
               /\ UNCHANGED << referrersByID, referrersByCode, invitedByUserID >>
    /\ cacheMutex' = 0
    /\ UNCHANGED << store, faulty, waitingForWallet, counters >>

loadDealIDsCache(t) ==
    /\ pc[t] = "lc_dealids"
    /\ cacheMutex = t
    /\ \E fail \in FailChoices :
          IF fail
          THEN /\ Return(t, TRUE)
               /\ UNCHANGED cache
          ELSE /\ existingDealIDs' = DealIDsOf(referralsSheet)
               /\ Return(t, FALSE)
               /\ UNCHANGED << referrersByID, referrersByCode, invitedByUserID >>
    /\ cacheMutex' = 0
    /\ UNCHANGED << store, faulty, waitingForWallet, counters >>

LoadCache(t) ==
    \/ loadReferrersCache(t)
    \/ loadInvitedCache(t)
    \/ loadDealIDsCache(t)

(***************************************************************************)
(* UpdateReferrer(loc[t].ref): read the sheet, find the row of ref.ID,     *)
(* write the whole row A..G, then put ref into both maps.                  *)
(***************************************************************************)
UpdateReferrerGet(t) ==
    /\ pc[t] = "ur_get"
    /\ \E fail \in FailChoices :
          LET rowIndex == FindReferrerRow(referrersSheet, loc[t].ref.ID, 0)
          IN  IF fail \/ rowIndex = -1
              THEN Return(t, TRUE)
              ELSE /\ loc' = [loc EXCEPT ![t].rowIndex = rowIndex]
                   /\ Goto(t, "ur_update")
    /\ UNCHANGED << store, cache, cacheMutex, faulty, waitingForWallet, counters >>

UpdateReferrerUpdate(t) ==
    /\ pc[t] = "ur_update"
    /\ \E fail \in FailChoices :
          IF fail
          THEN /\ Return(t, TRUE)
               /\ UNCHANGED referrersSheet
          ELSE /\ referrersSheet' =
                      UpdateRow(referrersSheet, loc[t].rowIndex,
                                ReferrerRow(loc[t].ref), EmptyReferrerRow)
               /\ Goto(t, "ur_cache")
               /\ UNCHANGED loc
    /\ UNCHANGED << invitedSheet, referralsSheet, withdrawalsSheet, cache,
                    cacheMutex, faulty, waitingForWallet, counters >>

\* A variant of the last step that forgets referrersByCode; C5 tells it from
\* UpdateReferrerCache.
UpdateReferrerCacheByIDOnly(t) ==
    /\ pc[t] = "ur_cache"
    /\ cacheMutex = 0
    /\ referrersByID' = MapPut(referrersByID, loc[t].ref.ID, loc[t].ref)
    /\ Return(t, FALSE)
    /\ UNCHANGED << store, referrersByCode, invitedByUserID, existingDealIDs,
                    cacheMutex, faulty, waitingForWallet, counters >>

UpdateReferrerCache(t) ==
    /\ pc[t] = "ur_cache"
    /\ cacheMutex = 0
    /\ referrersByID' = MapPut(referrersByID, loc[t].ref.ID, loc[t].ref)
    /\ referrersByCode' =
           IF loc[t].ref.Code # NoCode
           THEN MapPut(referrersByCode, NormalizeCode(loc[t].ref.Code), loc[t].ref)
           ELSE referrersByCode
    /\ ReturnStored(t)
    /\ UNCHANGED << store, invitedByUserID, existingDealIDs, cacheMutex,
                    faulty, waitingForWallet, counters >>

UpdateReferrer(t) ==
    \/ UpdateReferrerGet(t)
    \/ UpdateReferrerUpdate(t)
    \/ UpdateReferrerCache(t)

(***************************************************************************)
(* CreateReferral(loc[t].referral): first empty row of the ledger, write   *)
(* A..F, then mark the deal id as known.                                   *)
(***************************************************************************)
CreateReferralFind(t) ==
    /\ pc[t] = "crl_find"
    /\ \E fail \in FailChoices :
          IF fail
          THEN Return(t, TRUE)
          ELSE /\ loc' = [loc EXCEPT ![t].rowIndex = findFirstEmptyRow(referralsSheet)]
               /\ Goto(t, "crl_update")
    /\ UNCHANGED << store, cache, cacheMutex, faulty, waitingForWallet, counters >>

CreateReferralUpdate(t) ==
    /\ pc[t] = "crl_update"
    /\ \E fail \in FailChoices :
          IF fail
          THEN /\ Return(t, TRUE)
               /\ UNCHANGED referralsSheet
          ELSE /\ referralsSheet' =
                      UpdateRow(referralsSheet, loc[t].rowIndex,
                                ReferralRow(loc[t].referral), EmptyReferralRow)
               /\ Goto(t, "crl_cache")
               /\ UNCHANGED loc
    /\ UNCHANGED << referrersSheet, invitedSheet, withdrawalsSheet, cache,
                    cacheMutex, faulty, waitingForWallet, counters >>

CreateReferralCache(t) ==
    /\ pc[t] = "crl_cache"
    /\ cacheMutex = 0
    /\ existingDealIDs' = existingDealIDs \cup {loc[t].referral.DealID}
    /\ Return(t, FALSE)
    /\ UNCHANGED << store, referrersByID, referrersByCode, invitedByUserID,
                    cacheMutex, faulty, waitingForWallet, counters >>

CreateReferral(t) ==
    \/ CreateReferralFind(t)
    \/ CreateReferralUpdate(t)
    \/ CreateReferralCache(t)

(***************************************************************************)
(* Inputs.  The random source of generateUniqueCode is bounded to MaxDraw   *)
(* draws that differ in their last index only.                             *)
(***************************************************************************)
Draws ==
    { [j \in 1 .. codeLength |-> IF j = codeLength THEN n ELSE 0] : n \in 1 .. MaxDraw }

CodeFrom(draw) == [j \in 1 .. codeLength |-> charset[draw[j] + 1]]

FirstCode == CodeFrom([j \in 1 .. codeLength |-> 0])

\* A code that no referrer of the reconciliation runs holds.
DanglingCode == CodeFrom([j \in 1 .. codeLength |-> IF j = codeLength THEN 1 ELSE 0])

(***************************************************************************)
(* CreateReferrer(loc[t].user, "@" + loc[t].uname): generateUniqueCode,    *)
(* first empty row, write A..G.  The maps are not touched.                 *)
(*                                                                         *)
(* One attempt of generateUniqueCode: draw codeLength indexes into the     *)
(* charset, then codeExists reads column C of the sheet.  The exploration  *)
(* follows at most MaxRetry collisions of one call that a draw could have  *)
(* avoided; when every draw collides the call runs to its attempt budget.  *)
(***************************************************************************)
AllDrawsCollide ==
    \A draw \in Draws : codeExists(referrersSheet, CodeFrom(draw))

NewReferrer(userID, username, code) ==
    [ID |-> userID, Username |-> username, Code |-> code, Wallet |-> "",
     RefCount |-> 0, PendingPayout |-> 0, PaidOut |-> 0]

\* A variant that hands out the last colliding code when the budget is spent;
\* C11 tells it from generateUniqueCode.
generateUniqueCodeNoBudgetError(t) ==
    /\ pc[t] = "cr_generate"
    /\ loc[t].i < maxAttempts
    /\ \E draw \in Draws, fail \in FailChoices :
          LET codeStr == CodeFrom(draw)
          IN  IF fail
              THEN Return(t, TRUE)
              ELSE IF codeExists(referrersSheet, codeStr) /\ loc[t].i + 1 < maxAttempts
              THEN /\ loc[t].i < MaxRetry \/ AllDrawsCollide
                   /\ loc' = [loc EXCEPT ![t].i = @ + 1]
                   /\ UNCHANGED pc
              ELSE /\ loc' = [loc EXCEPT ![t].ref =
                                  NewReferrer(loc[t].user,
                                              << "@" >> \o loc[t].uname, codeStr)]
                   /\ Goto(t, "cr_find")
    /\ UNCHANGED << store, cache, cacheMutex, faulty, waitingForWallet, counters >>

generateUniqueCode(t) ==
    /\ pc[t] = "cr_generate"
    /\ loc[t].i < maxAttempts
    /\ \E draw \in Draws, fail \in FailChoices :
          LET codeStr == CodeFrom(draw)
          IN  IF fail
              THEN Return(t, TRUE)
              ELSE IF codeExists(referrersSheet, codeStr)
              THEN /\ loc[t].i < MaxRetry \/ AllDrawsCollide
                   /\ IF loc[t].i + 1 >= maxAttempts
                      THEN Return(t, TRUE)
                      ELSE /\ loc' = [loc EXCEPT ![t].i = @ + 1]
                           /\ UNCHANGED pc
              ELSE /\ loc' = [loc EXCEPT ![t].ref =
                                  NewReferrer(loc[t].user,
                                              << "@" >> \o loc[t].uname, codeStr)]
                   /\ Goto(t, "cr_find")
    /\ UNCHANGED << store, cache, cacheMutex, faulty, waitingForWallet, counters >>

CreateReferrerFind(t) ==
    /\ pc[t] = "cr_find"
    /\ \E fail \in FailChoices :
          IF fail
          THEN Return(t, TRUE)
          ELSE /\ loc' = [loc EXCEPT ![t].rowIndex = findFirstEmptyRow(referrersSheet)]
               /\ Goto(t, "cr_update")
    /\ UNCHANGED << store, cache, cacheMutex, faulty, waitingForWallet, counters >>

CreateReferrerUpdate(t) ==
    /\ pc[t] = "cr_update"
    /\ \E fail \in FailChoices :
          IF fail
          THEN /\ Return(t, TRUE)
               /\ UNCHANGED referrersSheet
          ELSE /\ referrersSheet' =
                      UpdateRow(referrersSheet, loc[t].rowIndex,
                                ReferrerRow(loc[t].ref), EmptyReferrerRow)
               /\ Return(t, FALSE)
    /\ UNCHANGED << invitedSheet, referralsSheet, withdrawalsSheet, cache,
                    cacheMutex, faulty, waitingForWallet, counters >>

CreateReferrer(t) ==
    \/ generateUniqueCode(t)
    \/ CreateReferrerFind(t)
    \/ CreateReferrerUpdate(t)

(***************************************************************************)
(* CreateInvited(loc[t].user, loc[t].arg): first empty row, write A..B,    *)
(* then put the record into invitedByUserID.                               *)
(***************************************************************************)
CreateInvitedFind(t) ==
    /\ pc[t] = "ci_find"
    /\ \E fail \in FailChoices :
          IF fail
          THEN Return(t, TRUE)
          ELSE /\ loc' = [loc EXCEPT ![t].rowIndex = findFirstEmptyRow(invitedSheet)]
               /\ Goto(t, "ci_update")
    /\ UNCHANGED << store, cache, cacheMutex, faulty, waitingForWallet, counters >>

\* A variant that puts the record into invitedByUserID also when the store
\* write failed; C35 tells it from CreateInvitedUpdate.
CreateInvitedUpdateCacheAnyway(t) ==
    /\ pc[t] = "ci_update"
    /\ \E fail \in FailChoices :
          IF fail
          THEN /\ Return(t, TRUE)
               /\ invitedByUserID' =
                      MapPut(invitedByUserID, loc[t].user,
                             [UserID |-> loc[t].user, RefCode |-> loc[t].arg])
               /\ UNCHANGED invitedSheet
          ELSE /\ invitedSheet' =
                      UpdateRow(invitedSheet, loc[t].rowIndex,
                                InvitedRow(loc[t].user, loc[t].arg), EmptyInvitedRow)
               /\ Goto(t, "ci_cache")
               /\ UNCHANGED << loc, invitedByUserID >>
    /\ UNCHANGED << referrersSheet, referralsSheet, withdrawalsSheet,
                    referrersByID, referrersByCode, existingDealIDs,
                    cacheMutex, faulty, waitingForWallet, counters >>

CreateInvitedUpdate(t) ==
    /\ pc[t] = "ci_update"
    /\ \E fail \in FailChoices :
          IF fail
          THEN /\ Return(t, TRUE)
               /\ UNCHANGED invitedSheet
          ELSE /\ invitedSheet' =
                      UpdateRow(invitedSheet, loc[t].rowIndex,
                                InvitedRow(loc[t].user, loc[t].arg), EmptyInvitedRow)
               /\ Goto(t, "ci_cache")
               /\ UNCHANGED loc
    /\ UNCHANGED << referrersSheet, referralsSheet, withdrawalsSheet, cache,
                    cacheMutex, faulty, waitingForWallet, counters >>

CreateInvitedCache(t) ==
    /\ pc[t] = "ci_cache"
    /\ cacheMutex = 0
    /\ invitedByUserID' =
           MapPut(invitedByUserID, loc[t].user,
                  [UserID |-> loc[t].user, RefCode |-> loc[t].arg])
    /\ Return(t, FALSE)
    /\ UNCHANGED << store, referrersByID, referrersByCode, existingDealIDs,
                    cacheMutex, faulty, waitingForWallet, counters >>

CreateInvited(t) ==
    \/ CreateInvitedFind(t)
    \/ CreateInvitedUpdate(t)
    \/ CreateInvitedCache(t)

(***************************************************************************)
(* The request handlers.  Start runs handleUpdate in a goroutine of its    *)
(* own for every update; a handler task takes one update at a time.        *)
(***************************************************************************)
Names == { << >>, << "a" >> }

LinkArgs == { FirstCode }

\* "/start", "/start <code>" and the button "Пригласить друзей" (invite friends).
Commands ==
    { [text |-> "/start", arg |-> NoCode], [text |-> "invite friends", arg |-> NoCode] }
        \cup { [text |-> "/start", arg |-> a] : a \in LinkArgs }

handleUpdate(t) ==
    /\ pc[t] = "idle"
    /\ requests < MaxReq
    /\ \E userID \in Users, username \in Names, msg \in Commands :
          /\ loc' = [loc EXCEPT ![t] =
                         [LocInit EXCEPT !.user = userID,
                                         !.uname = username,
                                         !.arg = msg.arg,
                                         !.text = IF /\ msg.text = "invite friends"
                                                     /\ userID \in waitingForWallet
                                                  THEN msg.text ELSE ""]]
          /\ Goto(t, IF msg.text = "invite friends"
                     THEN (IF userID \in waitingForWallet THEN "wi_check" ELSE "if_get")
                     ELSE IF msg.arg # NoCode THEN "rl_invited"
                     ELSE "hs_get")
    /\ requests' = requests + 1
    /\ UNCHANGED << store, cache, cacheMutex, faulty, waitingForWallet, passes >>

\* GetReferrerByID(userID), then CreateReferrer when there is none and the user
\* has a username, updateUsernameIfChanged when there is one: the part that
\* handleStart, handleInviteFriends and the end of handleReferralLink share.
RegisterOrRefresh(t) ==
    LET ref == GetReferrerByID(loc[t].user)
        currentUsernameWithAt == << "@" >> \o loc[t].uname
    IN  IF IsNil(ref)
        THEN IF loc[t].uname = << >>
             THEN Return(t, FALSE)
             ELSE /\ Goto(t, "cr_generate")
                  /\ loc' = [loc EXCEPT ![t].i = 0, ![t].ret = "idle"]
        ELSE IF loc[t].uname = << >> \/ TrimSpace(ref.Username) = currentUsernameWithAt
             THEN Return(t, FALSE)
             ELSE /\ Goto(t, "ur_get")
                  /\ loc' = [loc EXCEPT ![t].ref =
                                 [ref EXCEPT !.Username = currentUsernameWithAt],
                                        ![t].ret = "idle"]

handleStart(t) ==
    /\ pc[t] = "hs_get"
    /\ cacheMutex = 0
    /\ loc[t].ret = "idle"
    /\ RegisterOrRefresh(t)
    /\ UNCHANGED << store, cache, cacheMutex, faulty, waitingForWallet, counters >>

handleInviteFriends(t) ==
    /\ pc[t] = "if_get"
    /\ cacheMutex = 0
    /\ loc[t].ret = "idle"
    /\ RegisterOrRefresh(t)
    /\ UNCHANGED << store, cache, cacheMutex, faulty, waitingForWallet, counters >>

handleReferralLinkInvited(t) ==
    /\ pc[t] = "rl_invited"
    /\ cacheMutex = 0
    /\ IF GetInvitedByUserID(loc[t].user) # NilInvited
       THEN Return(t, FALSE)
       ELSE /\ Goto(t, "rl_referrer")
            /\ UNCHANGED loc
    /\ UNCHANGED << store, cache, cacheMutex, faulty, waitingForWallet, counters >>

handleReferralLinkReferrer(t) ==
    /\ pc[t] = "rl_referrer"
    /\ cacheMutex = 0
    /\ LET ref == GetReferrerByCode(loc[t].arg)
       IN  IF IsNil(ref) \/ ref.ID = loc[t].user
           THEN Return(t, FALSE)
           ELSE /\ Goto(t, "ci_find")
                /\ loc' = [loc EXCEPT ![t].ref = ref, ![t].ret = "rl_increment"]
    /\ UNCHANGED << store, cache, cacheMutex, faulty, waitingForWallet, counters >>

\* after CreateInvited: IncrementRefCount(refCode) up to its UpdateReferrer.
IncrementRefCount(t) ==
    /\ pc[t] = "rl_increment"
    /\ cacheMutex = 0
    /\ LET ref == GetReferrerByCode(loc[t].arg)
       IN  IF loc[t].err
           THEN /\ pc' = [pc EXCEPT ![t] = "idle"]
                /\ loc' = [loc EXCEPT ![t] = [LocInit EXCEPT !.err = TRUE]]
           ELSE IF IsNil(ref)
           THEN /\ Goto(t, "rl_notify")
                /\ loc' = [loc EXCEPT ![t].err = TRUE]
           ELSE /\ Goto(t, "ur_get")
                /\ loc' = [loc EXCEPT ![t].ref = [ref EXCEPT !.RefCount = @ + 1],
                                      ![t].ret = "rl_notify"]
    /\ UNCHANGED << store, cache, cacheMutex, faulty, waitingForWallet, counters >>

\* the referrer is read again for the notification; updatedRef.RefCount panics
\* on a nil updatedRef and the goroutine of the update ends.
handleReferralLinkNotify(t) ==
    /\ pc[t] = "rl_notify"
    /\ cacheMutex = 0
    /\ IF IsNil(GetReferrerByCode(loc[t].arg))
       THEN /\ pc' = [pc EXCEPT ![t] = "idle"]
            /\ loc' = [loc EXCEPT ![t] = [LocInit EXCEPT !.err = TRUE]]
       ELSE /\ Goto(t, "rl_existing")
            /\ loc' = [loc EXCEPT ![t].ret = "idle"]
    /\ UNCHANGED << store, cache, cacheMutex, faulty, waitingForWallet, counters >>

handleReferralLinkExisting(t) ==
    /\ pc[t] = "rl_existing"
    /\ cacheMutex = 0
    /\ RegisterOrRefresh(t)
    /\ UNCHANGED << store, cache, cacheMutex, faulty, waitingForWallet, counters >>

handleReferralLink(t) ==
    \/ handleReferralLinkInvited(t)
    \/ handleReferralLinkReferrer(t)
    \/ IncrementRefCount(t)
    \/ handleReferralLinkNotify(t)
    \/ handleReferralLinkExisting(t)

(***************************************************************************)
(* The wallet dialogue.  The texts of the dialogue: the button             *)
(* "Подключить TON-кошелёк" (connect wallet), the button "Мои рефералы"    *)
(* (my referrals), an address that walletRegex matches ("UQ"), a text that *)
(* it does not match ("x"), and a command other than /start ("/help").     *)
(***************************************************************************)
WalletTexts == { "connect wallet", "my referrals", "UQ", "x", "/help" }

walletRegexMatch(text) == text = "UQ"

\* handleUpdate on a text of the wallet dialogue: handleWalletInput when the
\* flag of the user is set, else the handler of the button, else showMenu
\* (after the hint for a text that looks like an address).
handleUpdateText(t) ==
    /\ pc[t] = "idle"
    /\ requests < MaxReq
    /\ \E userID \in Users, username \in Names, text \in WalletTexts :
          /\ loc' = [loc EXCEPT ![t] = [LocInit EXCEPT !.user = userID,
                                                      !.uname = username,
                                                      !.text = text]]
          /\ Goto(t, IF userID \in waitingForWallet THEN "wi_check"
                     ELSE IF text = "my referrals" THEN "mr_get"
                     ELSE IF text = "connect wallet" THEN "cw_get"
                     ELSE "sm_get")
    /\ requests' = requests + 1
    /\ UNCHANGED << store, cache, cacheMutex, faulty, waitingForWallet, passes >>

\* GetReferrerByID(userID), return when there is none, else
\* updateUsernameIfChanged and on to the position after it; the error of its
\* UpdateReferrer is logged only.
LookupAndRefresh(t, after) ==
    LET ref == GetReferrerByID(loc[t].user)
        currentUsernameWithAt == << "@" >> \o loc[t].uname
    IN  IF IsNil(ref)
        THEN Return(t, FALSE)
        ELSE IF loc[t].uname = << >> \/ TrimSpace(ref.Username) = currentUsernameWithAt
             THEN /\ Goto(t, after)
                  /\ UNCHANGED loc
             ELSE /\ Goto(t, "ur_get")
                  /\ loc' = [loc EXCEPT ![t].ref =
                                 [ref EXCEPT !.Username = currentUsernameWithAt],
                                        ![t].ret = after]

\* showMenu, and the last lookup of handleMyReferrals: GetReferrerByID, a
\* message, and the handler returns.
showMenu(t) ==
    /\ pc[t] \in { "sm_get", "mr_reread" }
    /\ cacheMutex = 0
    /\ pc' = [pc EXCEPT ![t] = "idle"]
    /\ loc' = [loc EXCEPT ![t] = LocInit]
    /\ UNCHANGED << store, cache, cacheMutex, faulty, waitingForWallet, counters >>

handleMyReferrals(t) ==
    /\ pc[t] = "mr_get"
    /\ cacheMutex = 0
    /\ LookupAndRefresh(t, "mr_reread")
    /\ UNCHANGED << store, cache, cacheMutex, faulty, waitingForWallet, counters >>

handleConnectWalletGet(t) ==
    /\ pc[t] = "cw_get"
    /\ cacheMutex = 0
    /\ LookupAndRefresh(t, "cw_flag")
    /\ UNCHANGED << store, cache, cacheMutex, faulty, waitingForWallet, counters >>

handleConnectWalletFlag(t) ==
    /\ pc[t] = "cw_flag"
    /\ waitingForWallet' = waitingForWallet \cup { loc[t].user }
    /\ pc' = [pc EXCEPT ![t] = "idle"]
    /\ loc' = [loc EXCEPT ![t] = LocInit]
    /\ UNCHANGED << store, cache, cacheMutex, faulty, counters >>

handleConnectWallet(t) ==
    \/ handleConnectWalletGet(t)
    \/ handleConnectWalletFlag(t)

\* handleWalletInput returns: the deferred function deletes the flag.
handleWalletInputReturn(t, flags, err) ==
    /\ waitingForWallet' = flags \ { loc[t].user }
    /\ pc' = [pc EXCEPT ![t] = "idle"]
    /\ loc' = [loc EXCEPT ![t] = [LocInit EXCEPT !.err = err]]

\* A variant in which the flag that the invalid-format branch sets again
\* survives the return; C29 tells it from handleWalletInputCheck.
handleWalletInputCheckRetry(t) ==
    /\ pc[t] = "wi_check"
    /\ IF loc[t].text \in { "invite friends", "my referrals", "connect wallet", "/help" }
       THEN handleWalletInputReturn(t, waitingForWallet, FALSE)
       ELSE IF ~walletRegexMatch(loc[t].text)
       THEN /\ waitingForWallet' = waitingForWallet \cup { loc[t].user }
            /\ pc' = [pc EXCEPT ![t] = "idle"]
            /\ loc' = [loc EXCEPT ![t] = LocInit]
       ELSE /\ Goto(t, "wi_get")
            /\ UNCHANGED << loc, waitingForWallet >>
    /\ UNCHANGED << store, cache, cacheMutex, faulty, counters >>

\* the checks of the text: a button or a command cancels the input, a text
\* of the wrong format sets the flag again before the return.
handleWalletInputCheck(t) ==
    /\ pc[t] = "wi_check"
    /\ IF loc[t].text \in { "invite friends", "my referrals", "connect wallet", "/help" }
       THEN handleWalletInputReturn(t, waitingForWallet, FALSE)
       ELSE IF ~walletRegexMatch(loc[t].text)
       THEN handleWalletInputReturn(t, waitingForWallet \cup { loc[t].user }, FALSE)
       ELSE /\ Goto(t, "wi_get")
            /\ UNCHANGED << loc, waitingForWallet >>
    /\ UNCHANGED << store, cache, cacheMutex, faulty, counters >>

\* GetReferrerByID, ref.Wallet = wallet, UpdateReferrer(ref).
handleWalletInputGet(t) ==
    /\ pc[t] = "wi_get"
    /\ cacheMutex = 0
    /\ LET ref == GetReferrerByID(loc[t].user)
       IN  IF IsNil(ref)
           THEN handleWalletInputReturn(t, waitingForWallet, FALSE)
           ELSE /\ Goto(t, "ur_get")
                /\ loc' = [loc EXCEPT ![t].ref = [ref EXCEPT !.Wallet = loc[t].text],
                                      ![t].ret = "wi_done"]
                /\ UNCHANGED waitingForWallet
    /\ UNCHANGED << store, cache, cacheMutex, faulty, counters >>

\* after UpdateReferrer: the reply, and the return.
handleWalletInputDone(t) ==
    /\ pc[t] = "wi_done"
    /\ handleWalletInputReturn(t, waitingForWallet, loc[t].err)
    /\ UNCHANGED << store, cache, cacheMutex, faulty, counters >>

handleWalletInput(t) ==
    \/ handleWalletInputCheck(t)
    \/ handleWalletInputGet(t)
    \/ handleWalletInputDone(t)

\* The periodic LoadCache of startSyncWorker, on its own: any number of ticks.
reloadTick(t) ==
    /\ pc[t] = "r_idle"
    /\ loc' = [loc EXCEPT ![t].ret = "r_idle", ![t].err = FALSE]
    /\ Goto(t, "lc_referrers")
    /\ UNCHANGED << store, cache, cacheMutex, faulty, waitingForWallet, counters >>

(***************************************************************************)
(* The sync worker: LoadCache, then syncWithdrawals, once per tick.        *)
(***************************************************************************)
startSyncWorker(t) ==
    /\ pc[t] = "w_idle"
    /\ passes < MaxPass
    /\ loc' = [loc EXCEPT ![t].ret = "w_sync", ![t].err = FALSE]
    /\ Goto(t, "lc_referrers")
    /\ UNCHANGED << store, cache, cacheMutex, faulty, waitingForWallet, counters >>

\* syncWithdrawals up to its loop: GetNewWithdrawals copies existingDealIDs
\* and reads the upstream range.
syncWithdrawals(t) ==
    /\ pc[t] = "w_sync"
    /\ cacheMutex = 0
    /\ \E fail \in FailChoices :
          LET withdrawals == GetNewWithdrawals(existingDealIDs, withdrawalsSheet)
          IN  IF fail \/ withdrawals = << >>
              THEN /\ loc' = [loc EXCEPT ![t] = [LocInit EXCEPT !.ret = "w_idle",
                                                              !.err = fail]]
                   /\ Goto(t, "w_idle")
                   /\ passes' = passes + 1
              ELSE /\ loc' = [loc EXCEPT ![t] = [LocInit EXCEPT !.queue = withdrawals,
                                                              !.ret = "w_idle"]]
                   /\ Goto(t, "pw_invited")
                   /\ UNCHANGED passes
    /\ UNCHANGED << store, cache, cacheMutex, faulty, waitingForWallet, requests >>

\* processWithdrawal, step 1: the Invited record of the event's user.
processWithdrawalInvited(t) ==
    /\ pc[t] = "pw_invited"
    /\ cacheMutex = 0
    /\ LET invited == GetInvitedByUserID(Head(loc[t].queue).UserID)
       IN  IF invited = NilInvited
           THEN /\ Goto(t, "pw_next")
                /\ loc' = [loc EXCEPT ![t].err = FALSE]
           ELSE /\ Goto(t, "pw_referrer")
                /\ loc' = [loc EXCEPT ![t].invited = invited]
    /\ UNCHANGED << store, cache, cacheMutex, faulty, waitingForWallet, counters >>

\* A variant that ledgers the event also when the code has no referrer; C12
\* tells it from processWithdrawalReferrer.
processWithdrawalReferrerNoSkip(t) ==
    /\ pc[t] = "pw_referrer"
    /\ cacheMutex = 0
    /\ LET ref == GetReferrerByCode(loc[t].invited.RefCode)
           w   == Head(loc[t].queue)
       IN  /\ Goto(t, "crl_find")
           /\ loc' = [loc EXCEPT ![t].ref = ref,
                                 ![t].referral =
                                     [RefID |-> w.UserID,
                                      RefCode |-> loc[t].invited.RefCode,
                                      Profit |-> w.Profit,
                                      DealID |-> w.DealID,
                                      Bonus |-> Bonus(w.Profit)],
                                 ![t].ret = "pw_accrue"]
    /\ UNCHANGED << store, cache, cacheMutex, faulty, waitingForWallet, counters >>

\* steps 2 to 4: the referrer of the code, the bonus, the ledger entry.
processWithdrawalReferrer(t) ==
    /\ pc[t] = "pw_referrer"
    /\ cacheMutex = 0
    /\ LET ref == GetReferrerByCode(loc[t].invited.RefCode)
           w   == Head(loc[t].queue)
       IN  IF IsNil(ref)
           THEN /\ Goto(t, "pw_next")
                /\ loc' = [loc EXCEPT ![t].err = FALSE]
           ELSE /\ Goto(t, "crl_find")
                /\ loc' = [loc EXCEPT ![t].ref = ref,
                                      ![t].referral =
                                          [RefID |-> w.UserID,
                                           RefCode |-> loc[t].invited.RefCode,
                                           Profit |-> w.Profit,
                                           DealID |-> w.DealID,
                                           Bonus |-> Bonus(w.Profit)],
                                      ![t].ret = "pw_accrue"]
    /\ UNCHANGED << store, cache, cacheMutex, faulty, waitingForWallet, counters >>

\* A variant of step 5 that accrues the bonus whether or not CreateReferral
\* returned an error; C22 tells it from processWithdrawalAccrue.
processWithdrawalAccrueAlways(t) ==
    /\ pc[t] = "pw_accrue"
    /\ Goto(t, "ur_get")
    /\ loc' = [loc EXCEPT ![t].ref.PendingPayout = @ + loc[t].referral.Bonus,
                          ![t].ret = "pw_next"]
    /\ UNCHANGED << store, cache, cacheMutex, faulty, waitingForWallet, counters >>

\* step 5: after CreateReferral, add the bonus and call UpdateReferrer.
processWithdrawalAccrue(t) ==
    /\ pc[t] = "pw_accrue"
    /\ IF loc[t].err
       THEN /\ Goto(t, "pw_next")
            /\ UNCHANGED loc
       ELSE /\ Goto(t, "ur_get")
            /\ loc' = [loc EXCEPT ![t].ref.PendingPayout = @ + loc[t].referral.Bonus,
                                  ![t].ret = "pw_next"]
    /\ UNCHANGED << store, cache, cacheMutex, faulty, waitingForWallet, counters >>

\* A variant of the loop that ends the pass at the first event whose
\* processWithdrawal returned an error; C24 tells it from syncWithdrawalsNext.
syncWithdrawalsNextStopOnError(t) ==
    /\ pc[t] = "pw_next"
    /\ IF Tail(loc[t].queue) = << >> \/ loc[t].err
       THEN /\ Goto(t, "w_idle")
            /\ loc' = [loc EXCEPT ![t] = [LocInit EXCEPT !.ret = "w_idle",
                                                        !.err = loc[t].err]]
            /\ passes' = passes + 1
       ELSE /\ Goto(t, "pw_invited")
            /\ loc' = [loc EXCEPT ![t].queue = Tail(@),
                                  ![t].invited = NilInvited,
                                  ![t].ref = NilReferrer,
                                  ![t].referral = NilReferral]
            /\ UNCHANGED passes
    /\ UNCHANGED << store, cache, cacheMutex, faulty, waitingForWallet, requests >>

\* the loop of syncWithdrawals: an error is logged, the next event follows.
syncWithdrawalsNext(t) ==
    /\ pc[t] = "pw_next"
    /\ IF Tail(loc[t].queue) = << >>
       THEN /\ Goto(t, "w_idle")
            /\ loc' = [loc EXCEPT ![t] = [LocInit EXCEPT !.ret = "w_idle",
                                                        !.err = loc[t].err]]
            /\ passes' = passes + 1
       ELSE /\ Goto(t, "pw_invited")
            /\ loc' = [loc EXCEPT ![t].queue = Tail(@),
                                  ![t].invited = NilInvited,
                                  ![t].ref = NilReferrer,
                                  ![t].referral = NilReferral]
            /\ UNCHANGED passes
    /\ UNCHANGED << store, cache, cacheMutex, faulty, waitingForWallet, requests >>

processWithdrawal(t) ==
    \/ processWithdrawalInvited(t)
    \/ processWithdrawalReferrer(t)
    \/ processWithdrawalAccrue(t)

(***************************************************************************)
(* Inputs of the reconciliation.                                           *)
(***************************************************************************)
DealName(d) == << "d" >> \o FormatInt(d)

Profits == {100}

\* An upstream row with all four columns: deal id, user id, (unused), profit.
RowChoices ==
    { << StrCell(DealName(d)), NumCell(u), StrCell(<< >>), NumCell(p) >> :
          d \in Deals, u \in Users, p \in Profits }

Ranges == UNION { [1 .. k -> RowChoices] : k \in 0 .. MaxRows }

FirstReferrer ==
    [ID |-> 1, Username |-> << "@", "b" >>, Code |-> FirstCode, Wallet |-> "",
     RefCount |-> 0, PendingPayout |-> 0, PaidOut |-> 0]

\* The cache as NewSheetsClient leaves it: its LoadCache ran on empty maps and
\* n of the three loaders succeeded (a failure is logged, the client is used).
CacheAfterNew(n) ==
    /\ referrersByID =
           IF n >= 1 THEN ReferrersByIDOf(referrersSheet, EmptyMap) ELSE EmptyMap
    /\ referrersByCode =
           IF n >= 1 THEN ReferrersByCodeOf(referrersSheet, EmptyMap) ELSE EmptyMap
    /\ invitedByUserID =
           IF n >= 2 THEN InvitedByUserIDOf(invitedSheet, EmptyMap) ELSE EmptyMap
    /\ existingDealIDs = IF n >= 3 THEN DealIDsOf(referralsSheet) ELSE {}

TasksIdle ==
    /\ pc = [t \in Tasks |->
                IF t = SyncWorker THEN "w_idle"
                ELSE IF t = ReloadTask THEN "r_idle"
                ELSE IF t = PayoutWorker THEN "p_idle"
                ELSE IF t \in { SyncRestarted, PayoutRestarted } THEN "none"
                ELSE "idle"]
    /\ loc = [t \in Tasks |-> [LocInit EXCEPT !.ret = pc[t]]]
    /\ cacheMutex = 0
    /\ passes = 0
    /\ requests = 0
    /\ waitingForWallet = {}

(***************************************************************************)
(* SpecSync: the reconciliation worker alone.  User 1 is a referrer; user  *)
(* 2 may be bound to the code of user 1 or to a code that no referrer      *)
(* holds; the upstream range is any range of at most MaxRows rows, the     *)
(* same deal id on two rows included.                                      *)
(***************************************************************************)
InitSync ==
    /\ faulty \in BOOLEAN
    /\ referrersSheet = << ReferrerRow(FirstReferrer) >>
    /\ invitedSheet \in { << >>, << InvitedRow(2, FirstCode) >>,
                          << InvitedRow(2, DanglingCode) >> }
    /\ referralsSheet = << >>
    /\ withdrawalsSheet \in Ranges
    /\ \E n \in (IF faulty THEN 0 .. 3 ELSE {3}) : CacheAfterNew(n)
    /\ TasksIdle

NextSync ==
    \/ startSyncWorker(SyncWorker)
    \/ LoadCache(SyncWorker)
    \/ syncWithdrawals(SyncWorker)
    \/ processWithdrawal(SyncWorker)
    \/ CreateReferral(SyncWorker)
    \/ UpdateReferrer(SyncWorker)
    \/ syncWithdrawalsNext(SyncWorker)

SpecSync == InitSync /\ [][NextSync]_vars

(***************************************************************************)
(* Observations on the store.                                              *)
(***************************************************************************)
LedgerDealIDs == { referralsSheet[k].D : k \in 1 .. Len(referralsSheet) } \ { << >> }

LedgerEntriesOf(dealID) ==
    { k \in 1 .. Len(referralsSheet) : referralsSheet[k].D = dealID }

\* C1: in every reachable state the ledger (sheet Рефералы) holds at most one
\* entry per deal id, whatever the upstream range and however many
\* reconciliation passes and cache reloads ran.
C1_OneEntryPerDealID ==
    \A dealID \in LedgerDealIDs : Cardinality(LedgerEntriesOf(dealID)) <= 1

\* The users that the sheet of invited users binds to the code of a referrer.
BoundUsers ==
    { ParseInt(invitedSheet[k].A).val :
          k \in { j \in 1 .. Len(invitedSheet) :
                      /\ ParseInt(invitedSheet[j].A).ok
                      /\ \E r \in 1 .. Len(referrersSheet) :
                             NormalizeCode(referrersSheet[r].C) =
                                 NormalizeCode(invitedSheet[j].B) } }

\* The upstream rows of a bound user, and the deal ids on them: the events
\* that a pass has to ledger.
EligibleRows ==
    { k \in 1 .. Len(withdrawalsSheet) :
          /\ ParseUserID(withdrawalsSheet[k][2]).ok
          /\ ParseUserID(withdrawalsSheet[k][2]).val \in BoundUsers }

EligibleDeals == { CellString(withdrawalsSheet[k][1]) : k \in EligibleRows }

EventBonus(dealID) ==
    LET k == CHOOSE j \in EligibleRows :
                 /\ CellString(withdrawalsSheet[j][1]) = dealID
                 /\ \A i \in EligibleRows :
                        CellString(withdrawalsSheet[i][1]) = dealID => j <= i
    IN  Bonus(getFloatValue(withdrawalsSheet[k][4]))

RECURSIVE SumOfBonuses(_)
SumOfBonuses(dealIDs) ==
    IF dealIDs = {} THEN 0
    ELSE LET d == CHOOSE x \in dealIDs : TRUE
         IN  EventBonus(d) + SumOfBonuses(dealIDs \ {d})

\* C2: when no call of the store fails, after two passes over the same upstream
\* range every event of a bound user has exactly one ledger entry, nothing
\* else is ledgered, and the pending balance of the referrer is the sum of
\* one bonus per event.
C2_TwoPassesOncePerEvent ==
    (~faulty /\ passes >= 2 /\ pc[SyncWorker] = "w_idle") =>
        /\ \A dealID \in EligibleDeals : Cardinality(LedgerEntriesOf(dealID)) = 1
        /\ LedgerDealIDs \subseteq EligibleDeals
        /\ referrersSheet[1].F = SumOfBonuses(EligibleDeals)

(***************************************************************************)
(* SpecBot: the request handlers, concurrent, and the periodic LoadCache.  *)
(* The sheets are empty or hold the row of user 1.                         *)
(***************************************************************************)
InitBot ==
    /\ faulty \in BOOLEAN
    /\ referrersSheet \in { << >>, << ReferrerRow(FirstReferrer) >> }
    /\ invitedSheet = << >>
    /\ referralsSheet = << >>
    /\ withdrawalsSheet = << >>
    /\ \E n \in (IF faulty THEN 0 .. 3 ELSE {3}) : CacheAfterNew(n)
    /\ TasksIdle

NextBot ==
    \/ \E t \in Handlers :
          \/ handleUpdate(t)
          \/ handleStart(t)
          \/ handleInviteFriends(t)
          \/ handleReferralLink(t)
          \/ CreateReferrer(t)
          \/ CreateInvited(t)
          \/ UpdateReferrer(t)
    \/ reloadTick(ReloadTask)
    \/ LoadCache(ReloadTask)

SpecBot == InitBot /\ [][NextBot]_vars

(***************************************************************************)
(* SpecSeq: the same bot when updates are handled one after the other (one *)
(* handler task), and the periodic LoadCache.                              *)
(***************************************************************************)
FirstHandler == CHOOSE t \in Handlers : \A u \in Handlers : t <= u

NextSeq ==
    \/ handleUpdate(FirstHandler)
    \/ handleStart(FirstHandler)
    \/ handleInviteFriends(FirstHandler)
    \/ handleReferralLink(FirstHandler)
    \/ CreateReferrer(FirstHandler)
    \/ CreateInvited(FirstHandler)
    \/ UpdateReferrer(FirstHandler)
    \/ reloadTick(ReloadTask)
    \/ LoadCache(ReloadTask)

SpecSeq == InitBot /\ [][NextSeq]_vars

(***************************************************************************)
(* SpecGenerate: the sequential handler, without the periodic LoadCache,   *)
(* on a referrer sheet that holds every code the bounded random source can *)
(* draw, or every code but the last: the rows of user 1 and of users that  *)
(* send no update.                                                         *)
(***************************************************************************)
DrawnCode(n) == CodeFrom([j \in 1 .. codeLength |-> IF j = codeLength THEN n ELSE 0])

CrowdedSheet(last) ==
    [k \in 1 .. (last + 1) |->
        IF k = 1 THEN ReferrerRow(FirstReferrer)
        ELSE ReferrerRow(NewReferrer(MaxUser + k, << "@", "c" >>, DrawnCode(k - 1)))]

NextGenerate ==
    \/ handleUpdate(FirstHandler)
    \/ handleStart(FirstHandler)
    \/ handleInviteFriends(FirstHandler)
    \/ handleReferralLink(FirstHandler)
    \/ CreateReferrer(FirstHandler)
    \/ CreateInvited(FirstHandler)
    \/ UpdateReferrer(FirstHandler)

InitGenerate ==
    /\ faulty \in BOOLEAN
    /\ referrersSheet \in { CrowdedSheet(MaxDraw), CrowdedSheet(MaxDraw - 1) }
    /\ invitedSheet = << >>
    /\ referralsSheet = << >>
    /\ withdrawalsSheet = << >>
    /\ \E n \in (IF faulty THEN 0 .. 3 ELSE {3}) : CacheAfterNew(n)
    /\ TasksIdle

SpecGenerate == InitGenerate /\ [][NextGenerate]_vars

(***************************************************************************)
(* Steps that end a call, as seen from outside.                            *)
(***************************************************************************)
LoadPositions == { "lc_referrers", "lc_invited", "lc_dealids" }

LoadCacheFails(t) ==
    pc[t] \in LoadPositions /\ pc'[t] \notin LoadPositions /\ loc'[t].err

LoadCacheSucceeds(t) ==
    pc[t] = "lc_dealids" /\ pc'[t] \notin LoadPositions /\ ~loc'[t].err

UpdateReferrerSucceeds(t) ==
    pc[t] = "ur_cache" /\ pc'[t] # "ur_cache" /\ ~loc'[t].err

CreateReferrerSucceeds(t) ==
    pc[t] = "cr_update" /\ pc'[t] # "cr_update" /\ ~loc'[t].err

CreateInvitedSucceeds(t) ==
    pc[t] = "ci_cache" /\ pc'[t] # "ci_cache" /\ ~loc'[t].err

CreateReferralSucceeds(t) ==
    pc[t] = "crl_cache" /\ pc'[t] # "crl_cache" /\ ~loc'[t].err

generateUniqueCodeReturns(t) ==
    pc[t] = "cr_generate" /\ pc'[t] = "cr_find"

\* C3: a LoadCache that returns an error leaves the four cache structures as
\* they were when the call took the mutex.
C3_FailedLoadKeepsCache ==
    [][\A t \in Tasks :
          LoadCacheFails(t) =>
              cache' = (IF pc[t] = "lc_referrers" THEN cache ELSE loc[t].saved)]_vars

\* The ids and the codes on rows of the referrer sheet, the user ids on rows
\* of the sheet of invited users.
ReferrerIDsOn(rows) ==
    { parseReferrerRow(rows[k]).ID : k \in 1 .. Len(rows) } \ {0}

CodesOn(rows) ==
    { NormalizeCode(rows[k].C) : k \in 1 .. Len(rows) } \ { NoCode }

InvitedIDsOn(rows) ==
    { ParseInt(rows[k].A).val : k \in { j \in 1 .. Len(rows) : ParseInt(rows[j].A).ok } }

StoreCodes ==
    { getStringValue(referrersSheet[k].C) : k \in 1 .. Len(referrersSheet) } \ { NoCode }

\* C4: when LoadCache returns without error, the lookups by id and by code
\* return, for every referrer row it read, a record equal to that row, and the
\* maps hold no referrer and no invited user that the rows it read do not hold.
C4_LoadedCacheEqualsStore ==
    [][\A t \in Tasks :
          LoadCacheSucceeds(t) =>
              /\ \A k \in 1 .. Len(loc[t].rows) :
                    LET ref == parseReferrerRow(loc[t].rows[k])
                    IN  ~IsNil(ref) =>
                            /\ MapGet(referrersByID', ref.ID, NilReferrer) = ref
                            /\ MapGet(referrersByCode', NormalizeCode(ref.Code),
                                      NilReferrer) = ref
              /\ DOMAIN referrersByID' \subseteq ReferrerIDsOn(loc[t].rows)
              /\ DOMAIN referrersByCode' \subseteq CodesOn(loc[t].rows)
              /\ DOMAIN invitedByUserID' \subseteq InvitedIDsOn(loc[t].invitedRows)]_vars

\* C5: the step that ends a successful UpdateReferrer(r) leaves r under r.ID
\* in referrersByID and under the normalized r.Code in referrersByCode.
C5_UpdateReferrerReflected ==
    [][\A t \in Tasks :
          UpdateReferrerSucceeds(t) =>
              /\ MapGet(referrersByID', loc[t].ref.ID, NilReferrer) = loc[t].ref
              /\ MapGet(referrersByCode', NormalizeCode(loc[t].ref.Code),
                        NilReferrer) = loc[t].ref]_vars

\* a caller changed the wallet of a record it looked up and passed the record
\* to UpdateReferrer, which has just returned nil: both lookups give it.
C5_Witness ==
    \E t \in Handlers :
        /\ pc[t] = "c_held"
        /\ ~loc[t].err
        /\ loc[t].shared
        /\ loc[t].ref = loc[t].held
        /\ loc[t].held.Wallet # ""
        /\ GetReferrerByID(loc[t].held.ID) = loc[t].held
        /\ GetReferrerByCode(loc[t].held.Code) = loc[t].held

\* C6: the step that ends a successful create leaves the new record in the
\* cache: the referrer under its id, the invited user under its id, the deal
\* id of the ledger entry in existingDealIDs.
C6_CreateReflected ==
    [][\A t \in Tasks :
          /\ CreateReferrerSucceeds(t) =>
                 MapGet(referrersByID', loc[t].user, NilReferrer) = loc[t].ref
          /\ CreateInvitedSucceeds(t) =>
                 MapGet(invitedByUserID', loc[t].user, NilInvited) =
                     [UserID |-> loc[t].user, RefCode |-> loc[t].arg]
          /\ CreateReferralSucceeds(t) =>
                 loc[t].referral.DealID \in existingDealIDs']_vars

ReferrerRowsOf(userID) ==
    { k \in 1 .. Len(referrersSheet) :
          parseReferrerRow(referrersSheet[k]).ID = userID }

\* C7: in every reachable state the referrer sheet holds at most one row per
\* user id.
C7_OneReferrerRowPerUser ==
    \A userID \in Users : Cardinality(ReferrerRowsOf(userID)) <= 1

InvitedRowsOf(userID) ==
    { k \in 1 .. Len(invitedSheet) :
          ParseInt(invitedSheet[k].A) = [ok |-> TRUE, val |-> userID] }

\* C8: in every reachable state the sheet of invited users holds at most one
\* record per user id.
C8_OneInvitedRowPerUser ==
    \A userID \in Users : Cardinality(InvitedRowsOf(userID)) <= 1

Alphabet ==
    { "A","B","C","D","E","F","G","H","I","J","K","L","M",
      "N","O","P","Q","R","S","T","U","V","W","X","Y","Z",
      "0","1","2","3","4","5","6","7","8","9" }

\* C9: the code that generateUniqueCode returns has 6 characters of A-Z0-9 and
\* differs from every code in column C of the store at the read of its last
\* codeExists, whatever the cache holds.
C9_GeneratedCodeFresh ==
    [][\A t \in Tasks :
          generateUniqueCodeReturns(t) =>
              LET code == loc'[t].ref.Code
              IN  /\ Len(code) = 6
                  /\ \A j \in 1 .. Len(code) : code[j] \in Alphabet
                  /\ code \notin StoreCodes]_vars

\* a code was returned after a collision with a code that the store holds and
\* the cache does not.
C9_Witness ==
    \E t \in Handlers :
        /\ pc[t] = "cr_find"
        /\ loc[t].i > 0
        /\ loc[t].ref.Code \notin StoreCodes
        /\ \E c \in StoreCodes : NormalizeCode(c) \notin DOMAIN referrersByCode

\* C10: the codes of the referrer sheet are pairwise distinct: the codes that
\* concurrent CreateReferrer calls stored differ from each other and from the
\* codes that were there.
C10_CodesPairwiseDistinct ==
    \A j, k \in 1 .. Len(referrersSheet) :
        (j # k /\ getStringValue(referrersSheet[j].C) # NoCode) =>
            getStringValue(referrersSheet[j].C) # getStringValue(referrersSheet[k].C)

(***************************************************************************)
(* Code generation: the attempt budget.                                    *)
(***************************************************************************)
generateUniqueCodeStep(t) ==
    pc[t] = "cr_generate" /\ loc'[t] # loc[t]

generateUniqueCodeFails(t) ==
    generateUniqueCodeStep(t) /\ pc'[t] \notin { "cr_generate", "cr_find" }

\* C11: generateUniqueCode makes at most 100 attempts; the 100th collision
\* ends the call, a call ends with an error only on a failed read or on the
\* 100th collision, and a call that ends with an error makes CreateReferrer
\* return the error to its caller without writing a referrer row.
C11_GenerationBudget ==
    [][\A t \in Tasks :
          /\ pc[t] = "cr_generate" => loc[t].i < 100
          /\ (generateUniqueCodeStep(t) /\ pc'[t] = "cr_generate") =>
                 loc'[t].i = loc[t].i + 1
          /\ (generateUniqueCodeStep(t) /\ loc[t].i = 99 /\ AllDrawsCollide) =>
                 generateUniqueCodeFails(t)
          /\ generateUniqueCodeFails(t) =>
                 /\ loc'[t].err
                 /\ pc'[t] = loc[t].ret
                 /\ referrersSheet' = referrersSheet
                 /\ faulty \/ (loc[t].i = 99 /\ AllDrawsCollide)]_vars

\* no call of the store failed, every code that can be drawn is in the store,
\* and a handler ended with the error of the spent budget.
C11_Witness ==
    /\ ~faulty
    /\ AllDrawsCollide
    /\ \E t \in Handlers : pc[t] = "idle" /\ loc[t].err

(***************************************************************************)
(* processWithdrawal: the benign skips.                                    *)
(***************************************************************************)
\* The step of processWithdrawal that finds no Invited record of the event's
\* user, or no referrer under the code of the record.
processWithdrawalSkips(t) ==
    /\ pc'[t] # pc[t]
    /\ \/ /\ pc[t] = "pw_invited"
          /\ GetInvitedByUserID(Head(loc[t].queue).UserID) = NilInvited
       \/ /\ pc[t] = "pw_referrer"
          /\ IsNil(GetReferrerByCode(loc[t].invited.RefCode))

\* C12: processWithdrawal of an event whose user has no Invited record, or
\* whose record names a code without referrer, returns nil and leaves the
\* ledger, every referrer row and record, and the known deal ids unchanged.
C12_SkipChangesNothing ==
    [][\A t \in Tasks :
          processWithdrawalSkips(t) =>
              /\ pc'[t] = "pw_next"
              /\ ~loc'[t].err
              /\ UNCHANGED << store, cache >>]_vars

\* an event of a user whose record names a code without referrer was skipped.
C12_Witness ==
    /\ pc[SyncWorker] = "pw_next"
    /\ ~loc[SyncWorker].err
    /\ loc[SyncWorker].invited.UserID = Head(loc[SyncWorker].queue).UserID
    /\ IsNil(GetReferrerByCode(loc[SyncWorker].invited.RefCode))
    /\ Head(loc[SyncWorker].queue).DealID \notin LedgerDealIDs
    /\ Head(loc[SyncWorker].queue).DealID \notin existingDealIDs

(***************************************************************************)
(* SpecRows: the reconciliation worker on an upstream range of one row of  *)
(* any shape: two to five cells, the profit a number or a text,            *)
(* positive, zero, negative or not a number at all.                        *)
(***************************************************************************)
ShapedProfits == { 100, 250 }

\* The balance of the referrer before the run.
Pendings == { 0, 50 }

ProfitCells ==
    { NumCell(p) : p \in ShapedProfits \cup { 0 } \cup { 0 - q : q \in ShapedProfits } }
        \cup { StrCell(FormatInt(p)) : p \in ShapedProfits \cup { 0 } \cup { 0 - q : q \in ShapedProfits } }
        \cup { StrCell(<< "x" >>), StrCell(<< >>) }

ShapedRows ==
    { << StrCell(DealName(d)), NumCell(u) >> : d \in Deals, u \in Users }
        \cup { << StrCell(DealName(d)), NumCell(u), c >> :
                   d \in Deals, u \in Users, c \in ProfitCells }
        \cup { << StrCell(DealName(d)), NumCell(u), StrCell(<< >>), c >> :
                   d \in Deals, u \in Users, c \in ProfitCells }
        \cup { << StrCell(DealName(d)), NumCell(u), StrCell(<< >>), NumCell(p), NumCell(0) >> :
                   d \in Deals, u \in Users, p \in ShapedProfits }

InitRows ==
    /\ faulty \in BOOLEAN
    /\ referrersSheet \in
           { << ReferrerRow([FirstReferrer EXCEPT !.PendingPayout = p]) >> : p \in Pendings }
    /\ invitedSheet = << InvitedRow(2, FirstCode) >>
    /\ referralsSheet = << >>
    /\ withdrawalsSheet \in { << row >> : row \in ShapedRows }
    /\ \E n \in (IF faulty THEN 0 .. 3 ELSE {3}) : CacheAfterNew(n)
    /\ TasksIdle

SpecRows == InitRows /\ [][NextSync]_vars

\* The profit cell of an upstream row of three cells or more.
ProfitCellOf(row) == IF Len(row) >= 4 THEN row[4] ELSE row[3]

\* The text of the cell is a decimal number.
IsNumeric(cell) == cell.t = "float64" \/ ParseInt(TrimSpace(cell.s)).ok

\* The upstream rows of the deal id.
UpstreamRowsOf(dealID) ==
    { k \in 1 .. Len(withdrawalsSheet) : CellString(withdrawalsSheet[k][1]) = dealID }

RECURSIVE EventsByColumnRule(_, _)
EventsByColumnRule(existing, rows) ==
    IF rows = << >> THEN << >>
    ELSE LET row    == Head(rows)
             profit == IF Len(row) >= 4 THEN getFloatValue(row[4])
                       ELSE IF Len(row) = 3 THEN getFloatValue(row[3])
                       ELSE 0
             keep   == /\ Len(row) >= 3
                       /\ CellString(row[1]) # << >>
                       /\ CellString(row[1]) \notin existing
                       /\ ParseUserID(row[2]).ok
                       /\ profit > 0
         IN  (IF keep THEN << [DealID |-> CellString(row[1]),
                               UserID |-> ParseUserID(row[2]).val,
                               Profit |-> profit] >>
              ELSE << >>) \o EventsByColumnRule(existing, Tail(rows))

\* The row of four cells with the cells of a row of three and an empty third.
WithThirdCell(row) == << row[1], row[2], StrCell(<< >>), row[3] >>

\* C19: the events that a pass of syncWithdrawals takes from GetNewWithdrawals
\* are those of the column rule, and a row of three cells gives the event of
\* the row of four cells with the same deal, user and profit.
C19_ProfitColumnFallback ==
    [][\A t \in Tasks :
          (pc[t] = "w_sync" /\ pc'[t] # "w_sync" /\ ~loc'[t].err) =>
              /\ loc'[t].queue = EventsByColumnRule(existingDealIDs, withdrawalsSheet)
              /\ \A k \in 1 .. Len(withdrawalsSheet) :
                    Len(withdrawalsSheet[k]) = 3 =>
                        GetNewWithdrawals(existingDealIDs, << withdrawalsSheet[k] >>)
                            = GetNewWithdrawals(existingDealIDs,
                                                << WithThirdCell(withdrawalsSheet[k]) >>)]_vars

\* a pass took the event of a row of three cells, the profit its third cell.
C19_Witness ==
    /\ pc[SyncWorker] = "pw_invited"
    /\ Len(withdrawalsSheet[1]) = 3
    /\ Len(loc[SyncWorker].queue) = 1
    /\ loc[SyncWorker].queue[1].Profit = getFloatValue(withdrawalsSheet[1][3])
    /\ loc[SyncWorker].queue[1].Profit > 0

(***************************************************************************)
(* processWithdrawal: the bonus and the accrual.                           *)
(***************************************************************************)
\* The step of UpdateReferrer, called by processWithdrawal, that wrote the row.
AccrualWritten(t) ==
    /\ pc[t] = "ur_update"
    /\ loc[t].ret = "pw_next"
    /\ pc'[t] = "ur_cache"

\* The step of UpdateReferrer, called by processWithdrawal, that stored the
\* record in the cache.
AccrualCached(t) ==
    /\ pc[t] = "ur_cache"
    /\ loc[t].ret = "pw_next"
    /\ pc'[t] = "pw_next"

\* C14: the ledger entry of an event carries the profit of the event and a
\* bonus of one tenth of it, and the row and the cached record of the referrer
\* then grow in the pending balance by that bonus and in nothing else.
C14_BonusIsTenth ==
    [][\A t \in Tasks :
          /\ (pc[t] = "crl_update" /\ pc'[t] = "crl_cache") =>
                /\ \E k \in 1 .. Len(referralsSheet') :
                      /\ referralsSheet'[k].D = Head(loc[t].queue).DealID
                      /\ referralsSheet'[k].C = Head(loc[t].queue).Profit
                      /\ referralsSheet'[k].E = loc[t].referral.Bonus
                /\ \A k \in 1 .. Len(referralsSheet') :
                      referralsSheet'[k].E * 10 = referralsSheet'[k].C
          /\ AccrualWritten(t) =>
                \E k \in 1 .. Len(referrersSheet) :
                    /\ referrersSheet[k].A = FormatInt(loc[t].ref.ID)
                    /\ referrersSheet' =
                           [referrersSheet EXCEPT ![k].F = @ + loc[t].referral.Bonus]
          /\ AccrualCached(t) =>
                /\ MapGet(referrersByID', loc[t].ref.ID, NilReferrer) =
                       [GetReferrerByID(loc[t].ref.ID)
                            EXCEPT !.PendingPayout = @ + loc[t].referral.Bonus]
                /\ referrersSheet' = referrersSheet]_vars

\* an event of profit 250 was ledgered with bonus 25 and a balance of 50 is 75.
C14_Witness ==
    /\ pc[SyncWorker] = "pw_next"
    /\ ~loc[SyncWorker].err
    /\ \E k \in 1 .. Len(referralsSheet) :
          referralsSheet[k].C = 250 /\ referralsSheet[k].E = 25
    /\ referrersSheet[1].F = 75
    /\ GetReferrerByID(1).PendingPayout = 75

(***************************************************************************)
(* UpdatePendingPayouts: read the rows of the referrers, collect for each  *)
(* row with an id the cell F = F - G when that differs from F, and send    *)
(* the collected cells in one batch update.                                *)
(***************************************************************************)
\* A variant that collects the rows without id too; C15 tells it from
\* PendingUpdates.
PendingUpdatesAnyRow(rows) ==
    { k \in 1 .. Len(rows) : rows[k].F - rows[k].G # rows[k].F }

\* The rows (indices of resp.Values) that UpdatePendingPayouts collects.
PendingUpdates(rows) ==
    { k \in 1 .. Len(rows) :
          /\ getStringValue(rows[k].A) # << >>
          /\ rows[k].F - rows[k].G # rows[k].F }

UpdatePendingPayoutsGet(t) ==
    /\ pc[t] = "upp_get"
    /\ \E fail \in FailChoices :
          IF fail THEN Return(t, TRUE) /\ passes' = passes + 1
          ELSE IF PendingUpdates(referrersSheet) = { }
          THEN Return(t, FALSE) /\ passes' = passes + 1
          ELSE /\ loc' = [loc EXCEPT ![t].rows = referrersSheet]
               /\ Goto(t, "upp_update")
               /\ UNCHANGED passes
    /\ UNCHANGED << store, cache, cacheMutex, faulty, waitingForWallet, requests >>

\* The batch update: every collected cell F, with the value computed from the
\* rows that were read.
UpdatePendingPayoutsBatch(t) ==
    /\ pc[t] = "upp_update"
    /\ \E fail \in FailChoices :
          IF fail
          THEN /\ Return(t, TRUE)
               /\ UNCHANGED referrersSheet
          ELSE /\ referrersSheet' =
                      [k \in 1 .. Len(referrersSheet) |->
                          IF k \in PendingUpdates(loc[t].rows)
                          THEN [referrersSheet[k] EXCEPT
                                    !.F = loc[t].rows[k].F - loc[t].rows[k].G]
                          ELSE referrersSheet[k]]
               /\ Return(t, FALSE)
    /\ passes' = passes + 1
    /\ UNCHANGED << invitedSheet, referralsSheet, withdrawalsSheet, cache,
                    cacheMutex, faulty, waitingForWallet, requests >>

UpdatePendingPayouts(t) ==
    \/ UpdatePendingPayoutsGet(t)
    \/ UpdatePendingPayoutsBatch(t)

\* A tick of startPayoutUpdateWorker: updatePendingPayouts logs the error of
\* the call, which stays in err until the next call returns.
startPayoutUpdateWorker(t) ==
    /\ pc[t] = "p_idle"
    /\ passes < MaxPass
    /\ loc' = [loc EXCEPT ![t].ret = "p_idle"]
    /\ Goto(t, "upp_get")
    /\ UNCHANGED << store, cache, cacheMutex, faulty, waitingForWallet, counters >>

(***************************************************************************)
(* SpecPayout: the payout-update worker alone, on a sheet of at most       *)
(* MaxRows rows: referrers with any of the balances, rows without id, and  *)
(* rows without id that carry amounts.                                     *)
(***************************************************************************)
PaidOuts == { 0, 20 }

PayoutRows(k) ==
    { ReferrerRow([FirstReferrer EXCEPT !.ID = k, !.Code = CodeFrom([j \in 1 .. codeLength |->
                                                               IF j = codeLength THEN k - 1 ELSE 0]),
                                        !.PendingPayout = p, !.PaidOut = g]) :
          p \in Pendings, g \in PaidOuts }
        \cup { EmptyReferrerRow, [EmptyReferrerRow EXCEPT !.F = 50, !.G = 20] }

PayoutSheets ==
    UNION { { sheet \in [1 .. n -> UNION { PayoutRows(k) : k \in 1 .. n }] :
                \A k \in 1 .. n : sheet[k] \in PayoutRows(k) } : n \in 0 .. MaxRows }

InitPayout ==
    /\ faulty \in BOOLEAN
    /\ referrersSheet \in PayoutSheets
    /\ invitedSheet = << >>
    /\ referralsSheet = << >>
    /\ withdrawalsSheet = << >>
    /\ CacheAfterNew(3)
    /\ TasksIdle

NextPayout ==
    \/ startPayoutUpdateWorker(PayoutWorker)
    \/ UpdatePendingPayouts(PayoutWorker)

SpecPayout == InitPayout /\ [][NextPayout]_vars

\* The sheet with the cell F of every row with an id set to F - G.
Repaired(rows) ==
    [k \in 1 .. Len(rows) |->
        IF rows[k].A # << >> THEN [rows[k] EXCEPT !.F = rows[k].F - rows[k].G]
        ELSE rows[k]]

\* C15: a run of UpdatePendingPayouts makes no write call when F - G equals F
\* on every row with an id; otherwise it makes one write call, the batch, after
\* which every row with an id holds F - G in column F and every other cell of
\* the sheet is as it was.
C15_RepairWritesDifferences ==
    [][\A t \in Tasks :
          /\ (pc[t] = "upp_get" /\ pc'[t] # "upp_get") =>
                /\ referrersSheet' = referrersSheet
                /\ (pc'[t] = "upp_update") =>
                       \E k \in 1 .. Len(referrersSheet) :
                           referrersSheet[k].A # << >> /\ referrersSheet[k].G # 0
                /\ (pc'[t] = "p_idle" /\ ~loc'[t].err) =>
                       Repaired(referrersSheet) = referrersSheet
          /\ (pc[t] = "upp_update" /\ pc'[t] # "upp_update") =>
                /\ pc'[t] = "p_idle"
                /\ referrersSheet' =
                       IF loc'[t].err THEN referrersSheet ELSE Repaired(referrersSheet)]_vars

\* a run wrote the balance of one row of two and left the other row alone.
C15_Witness ==
    /\ passes = 1
    /\ pc[PayoutWorker] = "p_idle"
    /\ ~loc[PayoutWorker].err
    /\ Len(referrersSheet) = 2
    /\ referrersSheet[1].F = 30 /\ referrersSheet[1].G = 20
    /\ referrersSheet[2].F = 50 /\ referrersSheet[2].G = 0

\* C16: a run of UpdatePendingPayouts that follows a run without error never
\* writes: the pending balance of every row stays what the first run left.
C16_SecondRunIsNoOp ==
    [][\A t \in Tasks :
          (pc[t] = "upp_update" /\ passes >= 1 /\ ~loc[t].err)
              => referrersSheet' = referrersSheet]_vars

(***************************************************************************)
(* SpecClient: a caller of the package that keeps a *Referrer between its  *)
(* calls: it looks a referrer up by id or by code, changes a field of the  *)
(* record it holds, passes the record to UpdateReferrer and calls          *)
(* IncrementRefCount, in any order, while LoadCache runs periodically.     *)
(***************************************************************************)
Wallets == { "", "UQ" }

\* The first code in other spellings: lower case, and padded lower case.
SpelledCodes ==
    { FirstCode,
      << "a" >> \o Tail(FirstCode),
      << " ", "a" >> \o Tail(FirstCode) \o << " " >> }

CodeQueries == SpelledCodes \cup { DanglingCode }

\* The sheet holds no referrer, or one whose code is spelled in any of the ways.
InitClient ==
    /\ faulty \in BOOLEAN
    /\ referrersSheet \in
           { << >> } \cup { << ReferrerRow([FirstReferrer EXCEPT !.Code = code]) >> :
                                code \in SpelledCodes }
    /\ invitedSheet = << >>
    /\ referralsSheet = << >>
    /\ withdrawalsSheet = << >>
    /\ \E n \in (IF faulty THEN 0 .. 3 ELSE {3}) : CacheAfterNew(n)
    /\ TasksIdle

\* GetReferrerByID or GetReferrerByCode: the caller gets a copy.
ClientLookup(t) ==
    /\ pc[t] \in { "idle", "c_held" }
    /\ cacheMutex = 0
    /\ requests < MaxReq
    /\ \E ref \in { GetReferrerByID(u) : u \in Users }
                      \cup { GetReferrerByCode(code) : code \in CodeQueries } :
          /\ ~IsNil(ref)
          /\ loc' = [loc EXCEPT ![t].held = ref, ![t].shared = FALSE,
                                ![t].ret = "c_held"]
    /\ Goto(t, "c_held")
    /\ requests' = requests + 1
    /\ UNCHANGED << store, cache, cacheMutex, faulty, waitingForWallet, passes >>

\* The caller assigns a field of the record it holds, as handleWalletInput
\* does with ref.Wallet; no lock is involved.  When the record is the one of
\* the cache, both maps show the new value.
ClientMutate(t) ==
    /\ pc[t] = "c_held"
    /\ \E wallet \in Wallets \ { loc[t].held.Wallet } :
          LET ref == [loc[t].held EXCEPT !.Wallet = wallet]
          IN  /\ loc' = [loc EXCEPT ![t].held = ref]
              /\ IF loc[t].shared
                 THEN /\ referrersByID' = MapPut(referrersByID, ref.ID, ref)
                      /\ referrersByCode' =
                             IF ref.Code # NoCode
                             THEN MapPut(referrersByCode, NormalizeCode(ref.Code), ref)
                             ELSE referrersByCode
                 ELSE UNCHANGED << referrersByID, referrersByCode >>
    /\ UNCHANGED << store, invitedByUserID, existingDealIDs, cacheMutex, pc,
                    faulty, waitingForWallet, counters >>

\* The caller passes the record it holds to UpdateReferrer.
ClientUpdate(t) ==
    /\ pc[t] = "c_held"
    /\ requests < MaxReq
    /\ loc' = [loc EXCEPT ![t].ref = loc[t].held, ![t].ret = "c_held"]
    /\ Goto(t, "ur_get")
    /\ requests' = requests + 1
    /\ UNCHANGED << store, cache, cacheMutex, faulty, waitingForWallet, passes >>

\* The caller calls IncrementRefCount(held.Code), which works on a copy of its
\* own, and goes on when the call has returned.
ClientIncrement(t) ==
    \/ /\ pc[t] = "c_held"
       /\ cacheMutex = 0
       /\ requests < MaxReq
       /\ LET ref == GetReferrerByCode(loc[t].held.Code)
          IN  IF IsNil(ref)
              THEN /\ loc' = [loc EXCEPT ![t].err = TRUE]
                   /\ UNCHANGED pc
              ELSE /\ loc' = [loc EXCEPT ![t].ref = [ref EXCEPT !.RefCount = @ + 1],
                                         ![t].ret = "c_incremented"]
                   /\ Goto(t, "ur_get")
       /\ requests' = requests + 1
       /\ UNCHANGED << store, cache, cacheMutex, faulty, waitingForWallet, passes >>
    \/ /\ pc[t] = "c_incremented"
       /\ Goto(t, "c_held")
       /\ loc' = [loc EXCEPT ![t].ret = "c_held"]
       /\ UNCHANGED << store, cache, cacheMutex, faulty, waitingForWallet, counters >>

NextClient ==
    \/ ClientLookup(FirstHandler)
    \/ ClientMutate(FirstHandler)
    \/ ClientUpdate(FirstHandler)
    \/ ClientIncrement(FirstHandler)
    \/ UpdateReferrer(FirstHandler)
    \/ reloadTick(ReloadTask)
    \/ LoadCache(ReloadTask)

SpecClient == InitClient /\ [][NextClient]_vars

\* C17: a caller that assigns a field of a Referrer it holds changes no
\* record of the cache: GetReferrerByID and GetReferrerByCode return after the
\* assignment what they returned before it.
C17_CallerCannotChangeLookups ==
    [][\A t \in Tasks :
          (pc[t] = "c_held" /\ pc'[t] = "c_held" /\ loc'[t].held # loc[t].held) =>
              /\ referrersByID' = referrersByID
              /\ referrersByCode' = referrersByCode]_vars

\* C18: a query finds the referrer of every indexed code that equals it after
\* trimming and upper-casing both: after loadReferrersCache for the code of
\* each row it read, after UpdateReferrer for the code of the record it stored,
\* and in every state for the code of each record of referrersByID.
C18_LookupIgnoresCaseAndSpace ==
    [][/\ \A t \in Tasks : \A q \in CodeQueries :
             /\ (/\ pc[t] = "lc_referrers"
                 /\ pc'[t] = "lc_invited")
                    => \A k \in 1 .. Len(referrersSheet) :
                          (/\ ~IsNil(parseReferrerRow(referrersSheet[k]))
                           /\ getStringValue(referrersSheet[k].C) # NoCode
                           /\ NormalizeCode(q) = NormalizeCode(referrersSheet[k].C))
                              => GetReferrerByCode(q)' = parseReferrerRow(referrersSheet[k])
             /\ (/\ pc[t] = "ur_cache"
                 /\ pc'[t] # "ur_cache"
                 /\ loc[t].ref.Code # NoCode
                 /\ NormalizeCode(q) = NormalizeCode(loc[t].ref.Code))
                    => GetReferrerByCode(q)' = loc[t].ref
       /\ \A id \in DOMAIN referrersByID' : \A q \in CodeQueries :
             (/\ referrersByID'[id].Code # NoCode
              /\ NormalizeCode(q) = NormalizeCode(referrersByID'[id].Code))
                 => GetReferrerByCode(q)' = referrersByID'[id]]_vars

\* the record with the lower-case code was indexed by UpdateReferrer and the
\* padded query and the upper-case query find it.
C18_Witness ==
    /\ pc[FirstHandler] = "c_held"
    /\ loc[FirstHandler].shared
    /\ loc[FirstHandler].held.Code = << "a" >> \o Tail(FirstCode)
    /\ GetReferrerByCode(<< " ", "a" >> \o Tail(FirstCode) \o << " " >>)
           = loc[FirstHandler].held
    /\ GetReferrerByCode(FirstCode) = loc[FirstHandler].held

(***************************************************************************)
(* Panics in the periodic tasks.  syncWithdrawals and updatePendingPayouts *)
(* recover their own panics and return to the loop of the worker; a panic  *)
(* in the rest of startSyncWorker (LoadCache, whose deferred Unlock runs)  *)
(* or of startPayoutUpdateWorker reaches the recover of the worker, which  *)
(* sleeps, starts a new goroutine of the worker and ends.                  *)
(***************************************************************************)
PanicEnds(t, position) ==
    /\ pc' = [pc EXCEPT ![t] = position]
    /\ loc' = [loc EXCEPT ![t] = [LocInit EXCEPT !.ret = position, !.err = TRUE]]
    /\ cacheMutex' = IF cacheMutex = t THEN 0 ELSE cacheMutex
    /\ UNCHANGED << store, cache, faulty, waitingForWallet, requests >>

\* The positions inside syncWithdrawals and inside updatePendingPayouts, whose
\* deferred recover ends the pass, and the positions in the rest of the body
\* of the worker, which its own deferred recover covers.
InsideSyncWithdrawals ==
    { "w_sync", "pw_invited", "pw_referrer", "crl_find", "crl_update",
      "crl_cache", "pw_accrue", "ur_get", "ur_update", "ur_cache", "pw_next" }

InsideStartSyncWorker == { "lc_referrers", "lc_invited", "lc_dealids" }

InsideUpdatePendingPayouts == { "upp_get", "upp_update" }

InsideStartPayoutUpdateWorker == { "p_idle" }

\* A panic that no deferred recover catches ends the process.
PanicInSyncWorker(t) ==
    /\ t \in SyncSlots
    /\ pc[t] \notin { "none", "w_idle", "w_cooldown", "w_exit", "crashed" }
    /\ IF pc[t] \in InsideSyncWithdrawals
       THEN PanicEnds(t, "w_idle") /\ passes' = passes + 1
       ELSE IF pc[t] \in InsideStartSyncWorker
       THEN PanicEnds(t, "w_cooldown") /\ UNCHANGED passes
       ELSE PanicEnds(t, "crashed") /\ UNCHANGED passes

PanicInPayoutWorker(t) ==
    /\ t \in PayoutSlots
    /\ pc[t] \notin { "none", "p_cooldown", "p_exit", "crashed" }
    /\ IF pc[t] \in InsideUpdatePendingPayouts
       THEN PanicEnds(t, "p_idle") /\ passes' = passes + 1
       ELSE IF pc[t] \in InsideStartPayoutUpdateWorker
       THEN PanicEnds(t, "p_cooldown") /\ UNCHANGED passes
       ELSE PanicEnds(t, "crashed") /\ UNCHANGED passes

\* A variant whose goroutine goes back to the loop after it started the new
\* one; C20 tells it from Restart.
RestartAndStay(t, slots, cooldown, exit, idle) ==
    /\ pc[t] = cooldown
    /\ \E u \in slots :
          /\ pc[u] = "none"
          /\ pc' = [pc EXCEPT ![t] = idle, ![u] = idle]
          /\ loc' = [loc EXCEPT ![t] = [LocInit EXCEPT !.ret = idle],
                                ![u] = [LocInit EXCEPT !.ret = idle]]

\* The goroutine of the recover starts goroutine u of the worker at position
\* idle and goes to position exit, where it ends.
Restart(t, slots, cooldown, exit, idle) ==
    \/ /\ pc[t] = cooldown
       /\ \E u \in slots :
             /\ pc[u] = "none"
             /\ pc' = [pc EXCEPT ![t] = exit, ![u] = idle]
             /\ loc' = [loc EXCEPT ![t] = [LocInit EXCEPT !.ret = exit],
                                   ![u] = [LocInit EXCEPT !.ret = idle]]
    \/ /\ pc[t] = exit
       /\ pc' = [pc EXCEPT ![t] = "none"]
       /\ loc' = [loc EXCEPT ![t] = [LocInit EXCEPT !.ret = "none"]]

startSyncWorkerRecover(t) ==
    /\ t \in SyncSlots
    /\ Restart(t, SyncSlots, "w_cooldown", "w_exit", "w_idle")
    /\ UNCHANGED << store, cache, cacheMutex, faulty, waitingForWallet, counters >>

startPayoutUpdateWorkerRecover(t) ==
    /\ t \in PayoutSlots
    /\ Restart(t, PayoutSlots, "p_cooldown", "p_exit", "p_idle")
    /\ UNCHANGED << store, cache, cacheMutex, faulty, waitingForWallet, counters >>

(***************************************************************************)
(* SpecWorkers: both periodic tasks, with panics, on one referrer with     *)
(* amounts paid out, one invited user and one upstream event of that user. *)
(* The handlers meet the workers at the cache mutex and at the store only. *)
(***************************************************************************)
InitWorkers ==
    /\ faulty = FALSE
    /\ referrersSheet \in
           { << ReferrerRow([FirstReferrer EXCEPT !.PendingPayout = p, !.PaidOut = g]) >> :
                 p \in Pendings \ { 0 }, g \in PaidOuts \ { 0 } }
    /\ invitedSheet = << InvitedRow(2, FirstCode) >>
    /\ referralsSheet = << >>
    /\ withdrawalsSheet \in
           { << << StrCell(DealName(1)), NumCell(2), StrCell(<< >>), NumCell(p) >> >> :
                 p \in Profits }
    /\ CacheAfterNew(3)
    /\ TasksIdle

NextWorkers ==
    \/ \E t \in SyncSlots :
          \/ startSyncWorker(t)
          \/ LoadCache(t)
          \/ syncWithdrawals(t)
          \/ processWithdrawal(t)
          \/ CreateReferral(t)
          \/ UpdateReferrer(t)
          \/ syncWithdrawalsNext(t)
          \/ PanicInSyncWorker(t)
          \/ startSyncWorkerRecover(t)
    \/ \E t \in PayoutSlots :
          \/ startPayoutUpdateWorker(t)
          \/ UpdatePendingPayouts(t)
          \/ PanicInPayoutWorker(t)
          \/ startPayoutUpdateWorkerRecover(t)

SpecWorkers == InitWorkers /\ [][NextWorkers]_vars

\* time.Sleep returns and the go statement of the recover runs.
SpecWorkersFair ==
    /\ SpecWorkers
    /\ \A t \in SyncSlots : WF_vars(startSyncWorkerRecover(t))
    /\ \A t \in PayoutSlots : WF_vars(startPayoutUpdateWorkerRecover(t))

\* The goroutines of the slots that are in the loop of their worker.
Running(slots) ==
    { t \in slots : pc[t] \notin { "none", "w_cooldown", "w_exit", "p_cooldown", "p_exit" } }

Recovering(slots) == { t \in slots : pc[t] \in { "w_cooldown", "p_cooldown" } }

\* A step of a panic or of a recover of goroutine t.
PanicStep(t) ==
    \/ PanicInSyncWorker(t)
    \/ startSyncWorkerRecover(t)
    \/ PanicInPayoutWorker(t)
    \/ startPayoutUpdateWorkerRecover(t)

\* C20: no goroutine ends the process with a panic; a panic of one task leaves
\* the cache mutex free and the other goroutines where they are; every worker
\* whose recover caught a panic has a goroutine in its loop again later; and
\* no worker ever has two goroutines in its loop.
C20_PanicsAreContained ==
    /\ [](/\ \A t \in Tasks : pc[t] # "crashed"
          /\ cacheMutex # 0 => pc[cacheMutex] \in { "lc_invited", "lc_dealids" }
          /\ Cardinality(Running(SyncSlots)) <= 1
          /\ Cardinality(Running(PayoutSlots)) <= 1)
    /\ [][\A t \in SyncSlots \cup PayoutSlots :
             PanicStep(t) =>
                 /\ \A u \in Handlers : pc'[u] = pc[u] /\ loc'[u] = loc[u]
                 /\ t \in SyncSlots =>
                        \A u \in PayoutSlots : pc'[u] = pc[u] /\ loc'[u] = loc[u]
                 /\ t \in PayoutSlots =>
                        \A u \in SyncSlots : pc'[u] = pc[u] /\ loc'[u] = loc[u]]_vars
    /\ (Recovering(SyncSlots) # { }) ~> (Running(SyncSlots) # { })
    /\ (Recovering(PayoutSlots) # { }) ~> (Running(PayoutSlots) # { })

\* the restarted goroutine of the sync worker is in a pass, the restarted
\* goroutine of the payout worker waits for its tick, the first goroutines of
\* both have ended, and the cache mutex is free.
C20_Witness ==
    /\ pc[SyncRestarted] \in InsideSyncWithdrawals
    /\ pc[SyncWorker] = "none"
    /\ pc[PayoutRestarted] = "p_idle"
    /\ pc[PayoutWorker] = "none"
    /\ cacheMutex = 0

(***************************************************************************)
(* SpecLink: the reconciliation worker next to one request handler.  User  *)
(* 1 is a referrer, nobody is bound yet, and the upstream range holds one  *)
(* event of user 2, who may follow the referral link of user 1 at any      *)
(* time.                                                                   *)
(***************************************************************************)
InitLink ==
    /\ faulty \in BOOLEAN
    /\ referrersSheet = << ReferrerRow(FirstReferrer) >>
    /\ invitedSheet = << >>
    /\ referralsSheet = << >>
    /\ withdrawalsSheet \in { << row >> : row \in { r \in RowChoices : r[2] = NumCell(2) } }
    /\ \E n \in (IF faulty THEN 0 .. 3 ELSE {3}) : CacheAfterNew(n)
    /\ TasksIdle

NextLink ==
    \/ startSyncWorker(SyncWorker)
    \/ LoadCache(SyncWorker)
    \/ syncWithdrawals(SyncWorker)
    \/ processWithdrawal(SyncWorker)
    \/ CreateReferral(SyncWorker)
    \/ UpdateReferrer(SyncWorker)
    \/ syncWithdrawalsNext(SyncWorker)
    \/ handleUpdate(FirstHandler)
    \/ handleStart(FirstHandler)
    \/ handleInviteFriends(FirstHandler)
    \/ handleReferralLink(FirstHandler)
    \/ CreateReferrer(FirstHandler)
    \/ CreateInvited(FirstHandler)
    \/ UpdateReferrer(FirstHandler)

SpecLink == InitLink /\ [][NextLink]_vars

\* A pass has completed, store calls do not fail in this run, and the ledger is
\* empty: the pass skipped the event of user 2, and it skipped it for lack of
\* an Invited record, since the referrer of every code that an Invited record
\* can carry here is cached.
SkippedForNoInvited ==
    /\ ~faulty
    /\ passes >= 1
    /\ referralsSheet = << >>

\* C21: an event that a pass skipped because its user had no Invited record
\* gets no ledger entry in any later pass, also when an Invited record of the
\* user is created after the skip: no step writes the first ledger entry once
\* a pass has skipped the event.
C21_SkippedStaysSkipped ==
    [][SkippedForNoInvited => referralsSheet' = << >>]_vars

(***************************************************************************)
(* processWithdrawal: the ledger entry comes before the balance.           *)
(***************************************************************************)
\* The task is in the UpdateReferrer that processWithdrawal calls with the
\* bonus added.
Accruing(t) ==
    pc[t] \in { "ur_get", "ur_update", "ur_cache" } /\ loc[t].ret = "pw_next"

\* The step at which the CreateReferral of processWithdrawal returns an error.
CreateReferralFails(t) ==
    /\ pc[t] \in { "crl_find", "crl_update" }
    /\ pc'[t] = "pw_accrue"
    /\ loc'[t].err

RECURSIVE LedgerBonusSum(_)
LedgerBonusSum(rows) ==
    IF rows = << >> THEN 0 ELSE Head(rows).E + LedgerBonusSum(Tail(rows))

\* C22: whenever the bonus of an event is being added, or is written, to the
\* balance of a referrer, the event has a ledger entry and its id is in
\* existingDealIDs, and the balances never hold more than the ledger; a
\* CreateReferral that fails changes neither the store nor the cache, and
\* processWithdrawal then goes to the next event without a write.
C22_LedgerBeforeBalance ==
    /\ [](/\ \A t \in Tasks :
               Accruing(t) =>
                   /\ loc[t].referral.DealID \in LedgerDealIDs
                   /\ loc[t].referral.DealID \in existingDealIDs
          /\ \A k \in 1 .. Len(referrersSheet) :
               referrersSheet[k].F <= LedgerBonusSum(referralsSheet))
    /\ [][\A t \in Tasks :
             /\ AccrualWritten(t) =>
                    /\ loc[t].referral.DealID \in LedgerDealIDs
                    /\ loc[t].referral.DealID \in existingDealIDs
             /\ CreateReferralFails(t) => UNCHANGED << store, cache >>
             /\ (pc[t] = "pw_accrue" /\ loc[t].err /\ pc'[t] # pc[t]) =>
                    /\ pc'[t] = "pw_next"
                    /\ UNCHANGED << store, cache >>]_vars

\* store calls may fail in this run, and the bonus of a ledgered and known
\* event has just been written to the balance of the referrer.
C22_Witness ==
    /\ faulty
    /\ pc[SyncWorker] = "ur_cache"
    /\ loc[SyncWorker].ret = "pw_next"
    /\ loc[SyncWorker].referral.DealID \in LedgerDealIDs
    /\ referrersSheet[1].F = loc[SyncWorker].referral.Bonus

(***************************************************************************)
(* syncWithdrawals: what becomes of an event whose processing failed.      *)
(***************************************************************************)
\* processWithdrawal of the event d has just returned an error, in the pass
\* that follows p completed passes.
FailedIn(d, p) ==
    /\ passes = p
    /\ pc[SyncWorker] = "pw_next"
    /\ loc[SyncWorker].err
    /\ Head(loc[SyncWorker].queue).DealID = DealName(d)

\* The events that a GetNewWithdrawals whose read succeeds returns now.
Candidates ==
    LET withdrawals == GetNewWithdrawals(existingDealIDs, withdrawalsSheet)
    IN  { withdrawals[k].DealID : k \in 1 .. Len(withdrawals) }

\* The events that a GetNewWithdrawals returns on the present upstream range
\* after a LoadCache that read the present ledger.
CandidatesAfterReload ==
    LET withdrawals == GetNewWithdrawals(DealIDsOf(referralsSheet), withdrawalsSheet)
    IN  { withdrawals[k].DealID : k \in 1 .. Len(withdrawals) }

\* C23: an event whose processWithdrawal returned an error is a candidate of
\* the GetNewWithdrawals of the next pass: when the error is returned the
\* event passes the filter of known deal ids, with the cache as it is and with
\* the cache as the LoadCache of the next pass loads it from the ledger.
C23_FailedEventComesBack ==
    \A d \in Deals, p \in 0 .. (MaxPass - 1) :
        FailedIn(d, p) =>
            /\ DealName(d) \in Candidates
            /\ DealName(d) \in CandidatesAfterReload

(***************************************************************************)
(* SpecBatch: the reconciliation worker alone on upstream ranges of        *)
(* MaxRows + 1 rows, each a well-formed row of user 2, a row of one cell,  *)
(* or a row whose user id is a text.  User 2 is bound to the code of user  *)
(* 1.                                                                      *)
(***************************************************************************)
BatchRows ==
    { << StrCell(DealName(d)), NumCell(2), StrCell(<< >>), NumCell(p) >> :
          d \in Deals, p \in Profits }
        \cup { << StrCell(DealName(1)) >>,
               << StrCell(DealName(1)), StrCell(<< "x" >>), StrCell(<< >>),
                  NumCell(100) >> }

InitBatch ==
    /\ faulty \in BOOLEAN
    /\ referrersSheet = << ReferrerRow(FirstReferrer) >>
    /\ invitedSheet = << InvitedRow(2, FirstCode) >>
    /\ referralsSheet = << >>
    /\ withdrawalsSheet \in [1 .. (MaxRows + 1) -> BatchRows]
    /\ \E n \in (IF faulty THEN 0 .. 3 ELSE {3}) : CacheAfterNew(n)
    /\ TasksIdle

SpecBatch == InitBatch /\ [][NextSync]_vars

\* The positions of a task inside a call of processWithdrawal.
InsideProcessWithdrawal ==
    { "pw_invited", "pw_referrer", "crl_find", "crl_update", "crl_cache",
      "pw_accrue", "ur_get", "ur_update", "ur_cache" }

\* C24: the loop of syncWithdrawals gets every new valid event of the range,
\* in row order, whatever the other rows hold; no step of processWithdrawal
\* ends the pass or changes the events still to come; and after each event,
\* failed or not, the loop goes on with the next one and ends the pass only
\* after the last.
C24_BadEventDoesNotAbort ==
    [][\A t \in Tasks :
          /\ (pc[t] = "w_sync" /\ pc'[t] = "pw_invited") =>
                 loc'[t].queue = EventsByColumnRule(existingDealIDs, withdrawalsSheet)
          /\ (pc[t] \in InsideProcessWithdrawal /\ loc[t].ret \in { "w_idle", "pw_accrue", "pw_next" }) =>
                 /\ pc'[t] \in InsideProcessWithdrawal \cup { "pw_next" }
                 /\ loc'[t].queue = loc[t].queue
          /\ (pc[t] = "pw_next" /\ pc'[t] # "pw_next") =>
                 IF Tail(loc[t].queue) = << >>
                 THEN pc'[t] = "w_idle"
                 ELSE /\ pc'[t] = "pw_invited"
                      /\ loc'[t].queue = Tail(loc[t].queue)]_vars

\* the first row has one cell, the event of the second row failed without a
\* ledger entry, and the event of the third row has been ledgered and accrued.
C24_Witness ==
    /\ Len(withdrawalsSheet[1]) = 1
    /\ pc[SyncWorker] = "pw_next"
    /\ ~loc[SyncWorker].err
    /\ Len(loc[SyncWorker].queue) = 1
    /\ loc[SyncWorker].queue[1].DealID = CellString(withdrawalsSheet[3][1])
    /\ loc[SyncWorker].queue[1].DealID \in LedgerDealIDs
    /\ CellString(withdrawalsSheet[2][1]) \notin LedgerDealIDs
    /\ Len(withdrawalsSheet[2]) = 4
    /\ ParseUserID(withdrawalsSheet[2][2]).ok
    /\ referrersSheet[1].F > 0

(***************************************************************************)
(* existingDealIDs over LoadCache and CreateReferral.                      *)
(***************************************************************************)
\* C25: no step removes a deal id from existingDealIDs, and no step removes a
\* deal id from the ledger: a LoadCache that fails keeps the set, one that
\* succeeds replaces it by the ids of the ledger, which hold every id of the
\* set, and CreateReferral adds to it.
C25_KnownDealsNeverForgotten ==
    [][/\ existingDealIDs \subseteq existingDealIDs'
       /\ LedgerDealIDs \subseteq LedgerDealIDs'
       /\ \A t \in Tasks :
             (pc[t] = "lc_dealids" /\ pc'[t] # "lc_dealids" /\ ~loc'[t].err) =>
                 existingDealIDs' = LedgerDealIDs']_vars

\* a deal id is known, and the LoadCache of a later pass has just failed.
C25_Witness ==
    /\ existingDealIDs # {}
    /\ passes >= 1
    /\ pc[SyncWorker] = "w_sync"
    /\ loc[SyncWorker].err

(***************************************************************************)
(* The cache lock and the calls of the store.                              *)
(***************************************************************************)
\* The positions at which the next step of a task is a call of the Sheets API.
StoreCallPositions ==
    { "lc_referrers", "lc_invited", "lc_dealids", "ur_get", "ur_update",
      "crl_find", "crl_update", "cr_generate", "cr_find", "cr_update",
      "ci_find", "ci_update", "w_sync", "upp_get", "upp_update" }

\* C26: no task issues a call of the store while it holds the cache lock, so
\* that no lookup waits for a store call of another task.
C26_NoStoreCallUnderLock ==
    \A t \in Tasks : pc[t] \in StoreCallPositions => cacheMutex # t

(***************************************************************************)
(* SpecWallet: the reconciliation worker next to one request handler that  *)
(* serves the wallet dialogue.  User 1 is a referrer without a wallet,     *)
(* user 2 is bound to the code of user 1, and the upstream range holds one *)
(* event of user 2.                                                        *)
(***************************************************************************)
InitWallet ==
    /\ faulty \in BOOLEAN
    /\ referrersSheet = << ReferrerRow(FirstReferrer) >>
    /\ invitedSheet = << InvitedRow(2, FirstCode) >>
    /\ referralsSheet = << >>
    /\ withdrawalsSheet \in { << row >> : row \in { r \in RowChoices : r[2] = NumCell(2) } }
    /\ \E n \in (IF faulty THEN 0 .. 3 ELSE {3}) : CacheAfterNew(n)
    /\ TasksIdle

NextWallet ==
    \/ startSyncWorker(SyncWorker)
    \/ LoadCache(SyncWorker)
    \/ syncWithdrawals(SyncWorker)
    \/ processWithdrawal(SyncWorker)
    \/ CreateReferral(SyncWorker)
    \/ UpdateReferrer(SyncWorker)
    \/ syncWithdrawalsNext(SyncWorker)
    \/ handleUpdateText(FirstHandler)
    \/ showMenu(FirstHandler)
    \/ handleMyReferrals(FirstHandler)
    \/ handleConnectWallet(FirstHandler)
    \/ handleWalletInput(FirstHandler)
    \/ UpdateReferrer(FirstHandler)

SpecWallet == InitWallet /\ [][NextWallet]_vars

\* The UpdateReferrer of handleWalletInput has just returned nil.
WalletLinked ==
    /\ pc[FirstHandler] = "wi_done"
    /\ ~loc[FirstHandler].err
    /\ loc[FirstHandler].user = FirstReferrer.ID

\* The processWithdrawal of an event of the referrer has just returned nil
\* after its accrual.
BonusAccrued ==
    /\ pc[SyncWorker] = "pw_next"
    /\ ~loc[SyncWorker].err
    /\ loc[SyncWorker].referral # NilReferral
    /\ loc[SyncWorker].ref.ID = FirstReferrer.ID

\* The row and the cached record of the referrer carry a wallet and a bonus.
WalletAndBonus ==
    /\ referrersSheet[1].D = "UQ"
    /\ referrersSheet[1].F >= Bonus(100)
    /\ GetReferrerByID(FirstReferrer.ID).Wallet = "UQ"
    /\ GetReferrerByID(FirstReferrer.ID).PendingPayout >= Bonus(100)

\* C27: when a wallet link and a bonus accrual on the same referrer have both
\* returned nil, in either order, the row and the cached record of the
\* referrer carry both the wallet and the bonus.
C27_WalletAndAccrualBothKept ==
    (WalletLinked /\ BonusAccrued) => WalletAndBonus

(***************************************************************************)
(* The sign of the pending balance.                                        *)
(***************************************************************************)
\* C28: in every reachable state the pending balance of every referrer row is
\* at least zero.
C28_PendingNeverNegative ==
    \A k \in 1 .. Len(referrersSheet) :
        referrersSheet[k].A # << >> => referrersSheet[k].F >= 0

(***************************************************************************)
(* handleWalletInput and the flag of the user.                             *)
(***************************************************************************)
InsideWalletInput == { "wi_check", "wi_get", "wi_done" }

C30_InvalidInputKeepsWaiting ==
    [][\A t \in Handlers :
           (/\ pc[t] = "wi_check"
            /\ pc'[t] = "idle"
            /\ loc[t].text = "x") =>
               loc[t].user \in waitingForWallet']_vars

(***************************************************************************)
(* SpecPaid: the reconciliation worker and the payout-update worker next   *)
(* to the aggregation of the sheet, which raises the paid-out total of a   *)
(* referrer row at any time.  User 1 is a referrer with any of the         *)
(* balances, user 2 is bound to the code of user 1, and the upstream range *)
(* holds one event of user 2.                                              *)
(***************************************************************************)
\* The column G is computed by the sheet (a sum over payouts that are entered
\* by hand): its value grows without any call of this process.
externalPaidOut ==
    /\ \E k \in 1 .. Len(referrersSheet), g \in PaidOuts :
          /\ referrersSheet[k].A # << >>
          /\ g > referrersSheet[k].G
          /\ referrersSheet' = [referrersSheet EXCEPT ![k].G = g]
    /\ UNCHANGED << invitedSheet, referralsSheet, withdrawalsSheet, cache,
                    cacheMutex, pc, loc, faulty, waitingForWallet, counters >>

InitPaid ==
    /\ faulty \in BOOLEAN
    /\ referrersSheet \in
           { << ReferrerRow([FirstReferrer EXCEPT !.PendingPayout = p, !.PaidOut = g]) >> :
                 p \in Pendings, g \in PaidOuts }
    /\ invitedSheet = << InvitedRow(2, FirstCode) >>
    /\ referralsSheet = << >>
    /\ withdrawalsSheet \in { << row >> : row \in { r \in RowChoices : r[2] = NumCell(2) } }
    /\ \E n \in (IF faulty THEN 0 .. 3 ELSE {3}) : CacheAfterNew(n)
    /\ TasksIdle

NextPaid ==
    \/ startSyncWorker(SyncWorker)
    \/ LoadCache(SyncWorker)
    \/ syncWithdrawals(SyncWorker)
    \/ processWithdrawal(SyncWorker)
    \/ CreateReferral(SyncWorker)
    \/ UpdateReferrer(SyncWorker)
    \/ syncWithdrawalsNext(SyncWorker)
    \/ startPayoutUpdateWorker(PayoutWorker)
    \/ UpdatePendingPayouts(PayoutWorker)
    \/ externalPaidOut

SpecPaid == InitPaid /\ [][NextPaid]_vars

\* C31: no step of a task of this process changes the cell G of a referrer
\* row that exists: after a step of UpdateReferrer or of UpdatePendingPayouts
\* the paid-out total of every row is what the aggregation last set, also
\* when the cached record of the row is older than the row.
C31_PaidOutNeverWritten ==
    [][pc' # pc =>
           \A k \in 1 .. Len(referrersSheet) :
               referrersSheet[k].A # << >> =>
                   referrersSheet'[k].G = referrersSheet[k].G]_vars

\* C32: the pending balance that an UpdateReferrer writes is derived from the
\* balance that the row holds at the write, so that a correction which
\* UpdatePendingPayouts wrote before is kept: the accrual of processWithdrawal
\* writes the balance of the row plus the bonus, and any other UpdateReferrer
\* writes the balance of the row.
C32_RepairNotOverwritten ==
    [][\A t \in Tasks :
           (pc[t] = "ur_update" /\ pc'[t] = "ur_cache") =>
               LET k == loc[t].rowIndex - 1
               IN  referrersSheet'[k].F =
                       referrersSheet[k].F +
                           (IF loc[t].ret = "pw_next" THEN loc[t].referral.Bonus ELSE 0)]_vars

(***************************************************************************)
(* Creates that run at the same time.                                      *)
(***************************************************************************)
\* The rows of the sheet that hold a record keep it over the step.
RecordsKept(rows, rowsAfter) ==
    \A k \in 1 .. Len(rows) : rows[k].A # << >> => rowsAfter[k] = rows[k]

\* C33: the store write of a create never replaces a row that holds a record:
\* CreateReferrer and CreateInvited put the new record on a row that was empty
\* at the write, whatever other creates ran since findFirstEmptyRow chose it.
C33_CreatesNeverOverwrite ==
    [][\A t \in Handlers :
           /\ (pc[t] = "cr_update" /\ pc'[t] # pc[t]) =>
                  RecordsKept(referrersSheet, referrersSheet')
           /\ (pc[t] = "ci_update" /\ pc'[t] # pc[t]) =>
                  RecordsKept(invitedSheet, invitedSheet')]_vars

(***************************************************************************)
(* The referral count of a referrer and the Invited records of its code.   *)
(***************************************************************************)
InvitedRowsOfCode(code) ==
    { k \in 1 .. Len(invitedSheet) :
          invitedSheet[k].A # << >> /\ invitedSheet[k].B = code }

\* No handler is at work.
HandlersIdle == \A t \in Handlers : pc[t] = "idle"

\* C34: whenever no handler is at work, the referral count in the row of each
\* referrer is the number of Invited records that carry the code of the row.
C34_RefCountMatchesInvited ==
    HandlersIdle =>
        \A k \in 1 .. Len(referrersSheet) :
            referrersSheet[k].A # << >> =>
                referrersSheet[k].E =
                    Cardinality(InvitedRowsOfCode(referrersSheet[k].C))

(***************************************************************************)
(* SpecStore: the reconciliation worker next to one request handler that   *)
(* serves referral links of users without a username, when store calls may *)
(* fail.  User 1 is a referrer, nobody is bound yet, and the upstream      *)
(* range holds one event of user 2.                                        *)
(***************************************************************************)
\* handleUpdate on "/start <code>" from a user without a username.
handleUpdateLink(t) ==
    /\ pc[t] = "idle"
    /\ requests < MaxReq
    /\ \E userID \in Users, arg \in LinkArgs :
          /\ loc' = [loc EXCEPT ![t] = [LocInit EXCEPT !.user = userID, !.arg = arg]]
          /\ Goto(t, "rl_invited")
    /\ requests' = requests + 1
    /\ UNCHANGED << store, cache, cacheMutex, faulty, waitingForWallet, passes >>

InitStore ==
    /\ faulty = TRUE
    /\ referrersSheet = << ReferrerRow(FirstReferrer) >>
    /\ invitedSheet = << >>
    /\ referralsSheet = << >>
    /\ withdrawalsSheet =
           << << StrCell(DealName(1)), NumCell(2), StrCell(<< >>), NumCell(100) >> >>
    /\ CacheAfterNew(3)
    /\ TasksIdle

NextStore ==
    \/ startSyncWorker(SyncWorker)
    \/ LoadCache(SyncWorker)
    \/ syncWithdrawals(SyncWorker)
    \/ processWithdrawal(SyncWorker)
    \/ CreateReferral(SyncWorker)
    \/ UpdateReferrer(SyncWorker)
    \/ syncWithdrawalsNext(SyncWorker)
    \/ handleUpdateLink(FirstHandler)
    \/ handleReferralLink(FirstHandler)
    \/ CreateInvited(FirstHandler)
    \/ UpdateReferrer(FirstHandler)

SpecStore == InitStore /\ [][NextStore]_vars

(***************************************************************************)
(* Local writes of the cache come after the store write.                   *)
(***************************************************************************)
\* The positions of UpdateReferrer, CreateInvited and CreateReferral at a
\* store call: the read that finds the row, and the write.
BeforeCacheWrite ==
    { "ur_get", "ur_update", "ci_find", "ci_update", "crl_find", "crl_update" }

\* C35: a store call of UpdateReferrer, CreateInvited or CreateReferral leaves
\* the cache maps and the known deal ids as they are, whether it succeeds or
\* fails, and the operation that returns from one of these calls (a failed
\* read or write, or no row for the id) returns an error: the cache is
\* written only by the step that follows a successful store write.
C35_CacheOnlyAfterStoreWrite ==
    [][\A t \in Tasks :
           (pc[t] \in BeforeCacheWrite /\ pc'[t] # pc[t]) =>
               /\ UNCHANGED cache
               /\ pc'[t] = loc[t].ret => loc'[t].err]_vars

\* store calls may fail: a CreateReferral has just returned an error, the
\* ledger has no row and the known deal ids lack the id of its event.
C35_Witness ==
    /\ faulty
    /\ pc[SyncWorker] = "pw_accrue"
    /\ loc[SyncWorker].err
    /\ referralsSheet = << >>
    /\ loc[SyncWorker].referral.DealID \notin existingDealIDs

(***************************************************************************)
(* SpecOwn: one request handler and the periodic LoadCache on a referrer   *)
(* sheet that holds the row of user 1, or the rows of users 1 and 2 with   *)
(* one and the same code (the sheet that two CreateReferrer calls leave    *)
(* when both drew the same code, C10).                                     *)
(***************************************************************************)
InitOwn ==
    /\ faulty \in BOOLEAN
    /\ referrersSheet \in
           { << ReferrerRow(FirstReferrer) >>,
             << ReferrerRow(FirstReferrer),
                ReferrerRow(NewReferrer(2, << "@", "c" >>, FirstCode)) >> }
    /\ invitedSheet = << >>
    /\ referralsSheet = << >>
    /\ withdrawalsSheet = << >>
    /\ \E n \in (IF faulty THEN 0 .. 3 ELSE {3}) : CacheAfterNew(n)
    /\ TasksIdle

SpecOwn == InitOwn /\ [][NextSeq]_vars

\* The referrer rows of the user that carry the code.
OwnCodeRows(userID, code) ==
    { k \in 1 .. Len(referrersSheet) :
          /\ parseReferrerRow(referrersSheet[k]).ID = userID
          /\ NormalizeCode(referrersSheet[k].C) = NormalizeCode(code) }

\* C36: no Invited record binds a user to a code that a referrer row of that
\* user carries.
C36_NoSelfReferral ==
    \A k \in 1 .. Len(invitedSheet) :
        LET p == ParseInt(invitedSheet[k].A)
        IN  p.ok => OwnCodeRows(p.val, invitedSheet[k].B) = { }

=============================================================================
